---- MODULE Spec2Model ----
(***************************************************************************)
(* Verification model of the Autonomous Onboarding Orchestrator:           *)
(* the API routes (onboarding intake, tasks, blockers, stakeholders,       *)
(* integrations, escalations) over the relational store, and the audit     *)
(* ledger (lib/audit-trail).                                               *)
(*                                                                         *)
(* The store is modelled table by table.  Rows are never deleted by the    *)
(* routes, so a table is a sequence and a row's id is its index (the       *)
(* store's gen_random_uuid() primary key).  The store client resolves to   *)
(* {data, error} and never throws: a statement ending in .single() reports *)
(* an error when it matches no row, a bare update(...).eq(...) matching no *)
(* row reports none.  Production mode (DEMO_MODE false) is modelled.       *)
(***************************************************************************)
EXTENDS Integers, Sequences, FiniteSets, TLC

VARIABLES
    customers,      \* table customers
    onboardings,    \* table onboardings
    tasks,          \* table onboarding_tasks
    stakeholders,   \* table stakeholders
    integrations,   \* table integrations
    events_audit,   \* table events_audit (the audit ledger)
    now,            \* the clock, in hours
    nreq,           \* number of API requests served so far
    resp,           \* the last request served and the response it got
    runs,           \* the batch escalation runs in flight (processOnboardingEscalations)
    outbox          \* notifications handed to the notification gateway

dbvars == <<customers, onboardings, tasks, stakeholders, integrations>>
vars == <<customers, onboardings, tasks, stakeholders, integrations,
          events_audit, now, nreq, resp, runs, outbox>>

NULL == "null"

\* JavaScript falsiness of a request field: missing, or the empty string
Falsy(v) == v = NULL \/ v = ""

(***************************************************************************)
(* Bounds of the model.                                                    *)
(***************************************************************************)
MaxRequests == 3     \* API requests served in one behaviour
MaxTaskRequests == 3 \* task and blocker requests in one behaviour of the task routes
MaxAppends == 2      \* ledger appends in one behaviour of the ledger on its own
MaxRuns == 2         \* batch escalation runs in one behaviour
MaxTicks == 1        \* clock ticks in one behaviour
TickHours == 13      \* hours per clock tick
StartNow == 72       \* the clock when the escalation runs begin

(***************************************************************************)
(* Helpers on sequences.                                                   *)
(***************************************************************************)
Ids(table) == 1..Len(table)

\* an id no row of the table has: every absent id behaves alike
AbsentId(table) == Len(table) + 1

RefIds(table) == Ids(table) \cup {AbsentId(table)}

(***************************************************************************)
(* Schema constraints of the store (check constraints and foreign keys).   *)
(***************************************************************************)
StakeholderRoles == {"owner", "it_contact", "project_manager", "technical_lead"}
IntegrationTypes == {"SIS", "CRM", "SFTP", "API", "other"}
IntegrationStatuses == {"not_configured", "configured", "testing", "active", "failed"}
TaskStatuses == {"pending", "in_progress", "completed", "blocked"}
OnboardingStatuses == {"not_started", "in_progress", "blocked", "completed"}

StakeholderRowOk(s) == s.role \in StakeholderRoles
IntegrationRowOk(i) == i.type \in IntegrationTypes /\ i.status \in IntegrationStatuses
TaskRowOk(t) == t.status \in TaskStatuses /\ t.onboarding_id \in Ids(onboardings)

(***************************************************************************)
(* Email shape test of the stakeholder routes:                             *)
(*   /^[^\s@]+@[^\s@]+\.[^\s@]+$/                                          *)
(* An email is a sequence of one-character strings.                        *)
(***************************************************************************)
PlainChar(c) == c /= "@" /\ c /= " "

AllPlain(s, lo, hi) == \A k \in lo..hi : PlainChar(s[k])

emailRegexTest(s) ==
    \E a \in 1..Len(s) : \E d \in 1..Len(s) :
        /\ s[a] = "@"
        /\ s[d] = "."
        /\ 1 < a /\ a + 1 < d /\ d < Len(s)
        /\ AllPlain(s, 1, a - 1)
        /\ AllPlain(s, a + 1, d - 1)
        /\ AllPlain(s, d + 1, Len(s))

GoodEmail == <<"p", "@", "x", ".", "i", "o">>
BadEmail == <<"p", "x", ".", "i", "o">>
NoEmail == <<>>

(***************************************************************************)
(* The audit ledger (lib/audit-trail).                                     *)
(* Metadata is a function from key to value; {...a, k: v} is  [k |-> v] @@ a *)
(***************************************************************************)
NoMetadata == [k \in {} |-> NULL]

\* the enrichment shared by createAuditRecord and createAuditRecords
EnhanceMetadata(metadata) ==
    [timestamp |-> now, system_version |-> "unknown", environment |-> "development"]
        @@ metadata

\* the row the store keeps for an inserted audit record (created_at defaults to now())
AuditRow(record) ==
    [entity_type |-> record.entity_type,
     entity_id   |-> record.entity_id,
     event_type  |-> record.event_type,
     metadata    |-> EnhanceMetadata(record.metadata),
     created_at  |-> now]

RECURSIVE AuditRows(_)
AuditRows(records) ==
    IF records = <<>> THEN <<>>
    ELSE <<AuditRow(Head(records))>> \o AuditRows(Tail(records))

\* a ledger write that replaces the stored rows instead of adding to them
createAuditRecord_Overwrite(ledger, record) == <<AuditRow(record)>>

\* createAuditRecord: one insert; the ledger after it
createAuditRecord(ledger, record) == Append(ledger, AuditRow(record))

\* createAuditRecords: one multi-row insert; the ledger after it
createAuditRecords(ledger, records) == ledger \o AuditRows(records)

ApiMeta(extra) == [source |-> "api", trigger |-> "user_action"] @@ extra

(***************************************************************************)
(* The response of a served request, with what the request did:            *)
(*   invalid  - the request fails a validation rule (missing field, bad    *)
(*              date, role, email, type or status)                         *)
(*   absent   - the request references a row that does not exist           *)
(*   fail     - the statement of the handler that the store failed         *)
(*   wrote    - some domain table differs after the request                *)
(*   asked    - rows the intake request asked to create with the onboarding *)
(*   added    - rows added to each domain table by the request             *)
(*   appended - audit rows appended by the request                         *)
(***************************************************************************)
NoneAsked == [stakeholders |-> 0, integrations |-> 0]

RespondAsked(route, code, body, invalid, absent, fail, asked) ==
    /\ nreq' = nreq + 1
    /\ now' = now + 1
    /\ resp' = [route    |-> route,
                code     |-> code,
                body     |-> body,
                invalid  |-> invalid,
                absent   |-> absent,
                fail     |-> fail,
                wrote    |-> dbvars' /= dbvars,
                asked    |-> asked,
                added    |-> [customers    |-> Len(customers') - Len(customers),
                              onboardings  |-> Len(onboardings') - Len(onboardings),
                              stakeholders |-> Len(stakeholders') - Len(stakeholders),
                              integrations |-> Len(integrations') - Len(integrations)],
                appended |-> Len(events_audit') - Len(events_audit)]

Respond(route, code, body, invalid, absent, fail) ==
    RespondAsked(route, code, body, invalid, absent, fail, NoneAsked)

ErrorBody == {"error"}

Today == now \div 24

\* a timestamp column: null, or new Date().toISOString() at some hour
NoTime == [kind |-> "none", at |-> 0]
TimeAt(t) == [kind |-> "time", at |-> t]

NoDate == [kind |-> "none", day |-> 0]
GarbageDate == [kind |-> "garbage", day |-> 0]
DateOn(d) == [kind |-> "date", day |-> d]

(***************************************************************************)
(* POST onboarding intake: customer, onboarding, stakeholders,             *)
(* integrations, audit batch, workflow webhook.                            *)
(***************************************************************************)
\* rows.map(r => ({...r, onboarding_id})), with the column defaults of the table
RECURSIVE WithOnboarding(_, _, _)
WithOnboarding(rows, oid, defaults) ==
    IF rows = <<>> THEN <<>>
    ELSE <<[onboarding_id |-> oid] @@ Head(rows) @@ defaults>>
         \o WithOnboarding(Tail(rows), oid, defaults)

\* the audit records of the stakeholders (integrations) created for the onboarding
RECURSIVE CreatedAudit(_, _, _, _, _)
CreatedAudit(table, from, oid, etype, event) ==
    IF from > Len(table) THEN <<>>
    ELSE (IF table[from].onboarding_id = oid
          THEN <<[entity_type |-> etype, entity_id |-> from, event_type |-> event,
                  metadata |-> ApiMeta([onboarding_id |-> oid])]>>
          ELSE <<>>) \o CreatedAudit(table, from + 1, oid, etype, event)

IntakeInvalid(req) ==
    \/ ~req.fields
    \/ req.go_live_date.kind = "garbage"
    \/ (req.go_live_date.kind = "date" /\ req.go_live_date.day <= Today)
    \/ \E i \in 1..Len(req.stakeholders) :
          \/ req.stakeholders[i].role \notin StakeholderRoles
          \/ ~emailRegexTest(req.stakeholders[i].email)
    \/ \E i \in 1..Len(req.integrations) :
          req.integrations[i].type \notin IntegrationTypes

\* an intake that does not check the integrations insert for an error
IntakeResponseCode_Unchecked(failedStep) ==
    IF failedStep \in {"none", "integrations"} THEN 200 ELSE 500

\* the handler's answer once its steps have run: a thrown store error is a 500
IntakeResponseCode(failedStep) == IF failedStep = "none" THEN 200 ELSE 500

IntakeResponseBody(failedStep) ==
    IF failedStep = "none" THEN {"success", "onboarding_id", "customer_id"} ELSE ErrorBody

IntakeFailPoints ==
    {"none", "customers", "onboardings", "stakeholders", "integrations",
     "select_stakeholders", "select_integrations", "events_audit"}

OnboardingIntake(req, fail) ==
    LET cid == Len(customers) + 1
        oid == Len(onboardings) + 1
        newCustomers == Append(customers, [name |-> "acme"])
        newOnboardings == Append(onboardings,
            [customer_id |-> cid, status |-> "not_started",
             go_live_date |-> req.go_live_date])
        shRows == WithOnboarding(req.stakeholders, oid, NoMetadata)
        inRows == WithOnboarding(req.integrations, oid, [status |-> "not_configured"])
        shOk == fail /= "stakeholders" /\ \A i \in 1..Len(shRows) : StakeholderRowOk(shRows[i])
        inOk == fail /= "integrations" /\ \A i \in 1..Len(inRows) : IntegrationRowOk(inRows[i])
        newStakeholders == stakeholders \o shRows
        newIntegrations == integrations \o inRows
        auditRecords ==
            << [entity_type |-> "customer", entity_id |-> cid,
                event_type |-> "customer_created",
                metadata |-> ApiMeta([onboarding_id |-> oid])],
               [entity_type |-> "onboarding", entity_id |-> oid,
                event_type |-> "onboarding_created",
                metadata |-> ApiMeta([customer_id |-> cid])] >>
            \o (IF Len(req.stakeholders) > 0 /\ fail /= "select_stakeholders"
                THEN CreatedAudit(newStakeholders, 1, oid, "stakeholder", "stakeholder_created")
                ELSE <<>>)
            \o (IF Len(req.integrations) > 0 /\ fail /= "select_integrations"
                THEN CreatedAudit(newIntegrations, 1, oid, "integration", "integration_created")
                ELSE <<>>)
        R(code, body) ==
            RespondAsked("onboarding_intake", code, body, IntakeInvalid(req), FALSE, fail,
                         [stakeholders |-> Len(req.stakeholders),
                          integrations |-> Len(req.integrations)])
        Thrown(step) == R(IntakeResponseCode(step), IntakeResponseBody(step))
    IN
    IF ~req.fields
       \/ req.go_live_date.kind = "garbage"
       \/ (req.go_live_date.kind = "date" /\ req.go_live_date.day <= Today)
    THEN \* rejected by the handler's own validation
         /\ fail = "none"
         /\ UNCHANGED <<dbvars, events_audit>>
         /\ R(400, ErrorBody)
    ELSE IF fail = "customers"
    THEN /\ UNCHANGED <<dbvars, events_audit>>
         /\ Thrown("customers")
    ELSE IF fail = "onboardings"
    THEN /\ customers' = newCustomers
         /\ UNCHANGED <<onboardings, tasks, stakeholders, integrations, events_audit>>
         /\ Thrown("onboardings")
    ELSE IF Len(req.stakeholders) > 0 /\ ~shOk
    THEN /\ customers' = newCustomers
         /\ onboardings' = newOnboardings
         /\ UNCHANGED <<tasks, stakeholders, integrations, events_audit>>
         /\ Thrown("stakeholders")
    ELSE IF Len(req.integrations) > 0 /\ ~inOk
    THEN /\ customers' = newCustomers
         /\ onboardings' = newOnboardings
         /\ stakeholders' = newStakeholders
         /\ UNCHANGED <<tasks, integrations, events_audit>>
         /\ Thrown("integrations")
    ELSE /\ (fail = "stakeholders" \/ fail = "select_stakeholders") => Len(req.stakeholders) > 0
         /\ (fail = "integrations" \/ fail = "select_integrations") => Len(req.integrations) > 0
         /\ customers' = newCustomers
         /\ onboardings' = newOnboardings
         /\ stakeholders' = newStakeholders
         /\ integrations' = newIntegrations
         /\ UNCHANGED tasks
         /\ IF fail = "events_audit"
            THEN /\ UNCHANGED events_audit
                 /\ Thrown("events_audit")
            ELSE /\ events_audit' = createAuditRecords(events_audit, auditRecords)
                 /\ Thrown("none")

(***************************************************************************)
(* POST /api/onboarding (app/api/onboarding/route.ts): customer,           *)
(* onboarding and one audit row inserted directly, its error unchecked.    *)
(* With a required field missing the handler reads `onboarding` before its *)
(* declaration, which throws into the handler's catch.                     *)
(***************************************************************************)
LegacyFailPoints == {"none", "customers", "onboardings", "events_audit"}

LegacyOnboardingPost(fields, fail) ==
    LET cid == Len(customers) + 1
        oid == Len(onboardings) + 1
        R(code, body) == Respond("onboarding_legacy", code, body, ~fields, FALSE, fail)
    IN
    IF ~fields
    THEN /\ fail = "none"
         /\ UNCHANGED <<dbvars, events_audit>>
         /\ R(500, ErrorBody)
    ELSE IF fail = "customers"
    THEN /\ UNCHANGED <<dbvars, events_audit>>
         /\ R(500, ErrorBody)
    ELSE /\ customers' = Append(customers, [name |-> "acme"])
         /\ UNCHANGED <<tasks, stakeholders, integrations>>
         /\ IF fail = "onboardings"
            THEN /\ UNCHANGED <<onboardings, events_audit>>
                 /\ R(500, ErrorBody)
            ELSE /\ onboardings' = Append(onboardings,
                        [customer_id |-> cid, status |-> "not_started",
                         go_live_date |-> NoDate])
                 /\ events_audit' =
                        IF fail = "events_audit" THEN events_audit
                        ELSE Append(events_audit,
                                [entity_type |-> "onboarding", entity_id |-> oid,
                                 event_type |-> "created",
                                 metadata |-> [customer_id |-> cid],
                                 created_at |-> now])
                 /\ R(200, {"success", "onboarding_id"})

(***************************************************************************)
(* Task routes: POST (create) and PUT (update).                            *)
(***************************************************************************)
TaskFailPoints == {"none", "onboarding_tasks", "events_audit"}

SetRow(table, id, row) == [table EXCEPT ![id] = row]

\* POST tasks: body {onboarding_id, task_type, title, owner_role, ...}
TaskCreate(onboarding_id, fields, fail) ==
    LET tid == Len(tasks) + 1
        row == [onboarding_id |-> onboarding_id,
                task_type     |-> "sis_setup",
                owner_role    |-> "it_contact",
                status        |-> "pending",
                priority      |-> "medium",
                due_date      |-> NoDate,
                completed_at  |-> NoTime,
                is_blocker    |-> FALSE,
                blocker_reason |-> NULL]
        absent == onboarding_id \notin Ids(onboardings)
        R(code, body) == Respond("task_create", code, body, ~fields, absent, fail)
    IN
    IF ~fields
    THEN /\ fail = "none"
         /\ UNCHANGED <<dbvars, events_audit>>
         /\ R(400, ErrorBody)
    ELSE IF fail = "onboarding_tasks" \/ ~TaskRowOk(row)
    THEN /\ UNCHANGED <<dbvars, events_audit>>
         /\ R(500, ErrorBody)
    ELSE /\ tasks' = Append(tasks, row)
         /\ UNCHANGED <<customers, onboardings, stakeholders, integrations>>
         /\ IF fail = "events_audit"
            THEN /\ UNCHANGED events_audit
                 /\ R(500, ErrorBody)
            ELSE /\ events_audit' = createAuditRecord(events_audit,
                        [entity_type |-> "task", entity_id |-> tid,
                         event_type |-> "task_created",
                         metadata |-> ApiMeta([onboarding_id |-> onboarding_id])])
                 /\ R(200, {"success", "task_id"})

\* the updateData of PUT tasks, applied to the stored row
\* an update that flags every blocked task as a blocker, reason or not
TaskUpdateData_AlwaysBlocker(row, status, blocker_reason) ==
    LET r1 == [row EXCEPT !.status = status]
        r2 == IF status = "blocked"
              THEN [r1 EXCEPT !.is_blocker = TRUE, !.blocker_reason = blocker_reason]
              ELSE [r1 EXCEPT !.is_blocker = FALSE, !.blocker_reason = NULL]
    IN IF status = "completed" THEN [r2 EXCEPT !.completed_at = TimeAt(now)] ELSE r2

\* an update that leaves the blocker flag alone unless a blocker is reported
TaskUpdateData_KeepBlocker(row, status, blocker_reason) ==
    LET r1 == [row EXCEPT !.status = status]
        r2 == IF status = "blocked" /\ ~Falsy(blocker_reason)
              THEN [r1 EXCEPT !.is_blocker = TRUE, !.blocker_reason = blocker_reason]
              ELSE r1
    IN IF status = "completed" THEN [r2 EXCEPT !.completed_at = TimeAt(now)] ELSE r2

TaskUpdateData(row, status, blocker_reason) ==
    LET r1 == [row EXCEPT !.status = status]
        r2 == IF status = "blocked" /\ ~Falsy(blocker_reason)
              THEN [r1 EXCEPT !.is_blocker = TRUE, !.blocker_reason = blocker_reason]
              ELSE IF status /= "blocked"
              THEN [r1 EXCEPT !.is_blocker = FALSE, !.blocker_reason = NULL]
              ELSE r1
    IN IF status = "completed" THEN [r2 EXCEPT !.completed_at = TimeAt(now)] ELSE r2

\* PUT tasks: body {task_id, status, assigned_to, blocker_reason}; status NULL = missing
TaskUpdate(task_id, status, blocker_reason, fail) ==
    LET absent == task_id \notin Ids(tasks)
        invalid == Falsy(status) \/ status \notin TaskStatuses
        R(code, body) == Respond("task_update", code, body, invalid, absent, fail)
    IN
    IF Falsy(status)
    THEN /\ fail = "none"
         /\ UNCHANGED <<dbvars, events_audit>>
         /\ R(400, ErrorBody)
    ELSE IF fail = "onboarding_tasks" \/ absent
            \/ ~TaskRowOk(TaskUpdateData(tasks[task_id], status, blocker_reason))
    THEN /\ UNCHANGED <<dbvars, events_audit>>
         /\ R(500, ErrorBody)
    ELSE /\ tasks' = SetRow(tasks, task_id,
                        TaskUpdateData(tasks[task_id], status, blocker_reason))
         /\ UNCHANGED <<customers, onboardings, stakeholders, integrations>>
         /\ IF fail = "events_audit"
            THEN /\ UNCHANGED events_audit
                 /\ R(500, ErrorBody)
            ELSE /\ events_audit' = createAuditRecord(events_audit,
                        [entity_type |-> IF status = "blocked" /\ ~Falsy(blocker_reason)
                                         THEN "blocker" ELSE "task",
                         entity_id |-> task_id,
                         event_type |-> IF status = "completed" THEN "task_completed"
                                        ELSE IF status = "blocked" /\ ~Falsy(blocker_reason)
                                        THEN "blocker_created" ELSE "task_status_changed",
                         metadata |-> ApiMeta([onboarding_id |-> tasks[task_id].onboarding_id])])
                 /\ R(200, {"success", "task"})

(***************************************************************************)
(* Blocker routes: POST (create) and PUT (resolve).                        *)
(***************************************************************************)
BlockerCreateFailPoints == {"none", "onboarding_tasks", "onboardings", "events_audit"}

\* update(...).eq("id", id) without .single(): no row matched is no error
UpdateWhereId(table, id, values) ==
    IF id \in Ids(table) THEN SetRow(table, id, values @@ table[id]) ELSE table

BlockTask(blocker_reason) ==
    [status |-> "blocked", is_blocker |-> TRUE, blocker_reason |-> blocker_reason]

SetStatus(status) == [status |-> status]

\* POST blockers: body {task_id, onboarding_id, blocker_reason}; NULL = missing
BlockerCreate(task_id, onboarding_id, blocker_reason, fail) ==
    LET absent == task_id \notin Ids(tasks) \/ onboarding_id \notin Ids(onboardings)
        R(code, body) ==
            Respond("blocker_create", code, body, Falsy(blocker_reason), absent, fail)
    IN
    IF Falsy(blocker_reason)
    THEN /\ fail = "none"
         /\ UNCHANGED <<dbvars, events_audit>>
         /\ R(400, ErrorBody)
    ELSE IF fail = "onboarding_tasks"
    THEN /\ UNCHANGED <<dbvars, events_audit>>
         /\ R(500, ErrorBody)
    ELSE /\ tasks' = UpdateWhereId(tasks, task_id, BlockTask(blocker_reason))
         /\ UNCHANGED <<customers, stakeholders, integrations>>
         /\ IF fail = "onboardings"
            THEN /\ UNCHANGED <<onboardings, events_audit>>
                 /\ R(500, ErrorBody)
            ELSE /\ onboardings' = UpdateWhereId(onboardings, onboarding_id, SetStatus("blocked"))
                 /\ IF fail = "events_audit"
                    THEN /\ UNCHANGED events_audit
                         /\ R(500, ErrorBody)
                    ELSE /\ events_audit' = createAuditRecord(events_audit,
                                [entity_type |-> "blocker", entity_id |-> task_id,
                                 event_type |-> "blocker_created",
                                 metadata |-> ApiMeta([onboarding_id |-> onboarding_id])])
                         /\ R(200, {"success", "task_id"})

BlockerResolveFailPoints ==
    {"none", "onboarding_tasks", "select_blockers", "onboardings", "events_audit"}

ResolveTask(row) ==
    [row EXCEPT !.status = "pending", !.is_blocker = FALSE, !.blocker_reason = NULL]

\* the remaining blockers of an onboarding, read from the task table
RemainingBlockers(table, oid) ==
    {i \in Ids(table) : table[i].onboarding_id = oid /\ table[i].is_blocker}

\* PUT blockers: body {task_id, action}; action NULL = missing
BlockerResolve(task_id, action, fail) ==
    LET absent == task_id \notin Ids(tasks)
        R(code, body) ==
            Respond("blocker_resolve", code, body, action /= "resolve", absent, fail)
        resolved == SetRow(tasks, task_id, ResolveTask(tasks[task_id]))
        oid == tasks[task_id].onboarding_id
    IN
    IF action /= "resolve"
    THEN /\ fail = "none"
         /\ UNCHANGED <<dbvars, events_audit>>
         /\ R(400, ErrorBody)
    ELSE IF fail = "onboarding_tasks" \/ absent
    THEN /\ UNCHANGED <<dbvars, events_audit>>
         /\ R(500, ErrorBody)
    ELSE /\ tasks' = resolved
         /\ UNCHANGED <<customers, stakeholders, integrations>>
         /\ IF fail = "select_blockers"
            THEN /\ UNCHANGED <<onboardings, events_audit>>
                 /\ R(500, ErrorBody)
            ELSE /\ fail = "onboardings" => RemainingBlockers(resolved, oid) = {}
                 /\ onboardings' =
                        IF RemainingBlockers(resolved, oid) = {} /\ fail /= "onboardings"
                        THEN UpdateWhereId(onboardings, oid, SetStatus("in_progress"))
                        ELSE onboardings
                 /\ IF fail = "events_audit"
                    THEN /\ UNCHANGED events_audit
                         /\ R(500, ErrorBody)
                    ELSE /\ events_audit' = createAuditRecord(events_audit,
                                [entity_type |-> "blocker", entity_id |-> task_id,
                                 event_type |-> "blocker_resolved",
                                 metadata |-> ApiMeta([onboarding_id |-> oid])])
                         /\ R(200, {"success"})

(***************************************************************************)
(* Stakeholder routes: POST (create) and PUT update/[id].                  *)
(***************************************************************************)
CreateFailPoints == {"none", "select", "insert", "events_audit"}
UpdateFailPoints == {"none", "select", "update", "events_audit"}

\* POST stakeholders: body {onboarding_id, role, name, email}; role NULL = missing
StakeholderCreate(onboarding_id, role, email, fail) ==
    LET sid == Len(stakeholders) + 1
        row == [onboarding_id |-> onboarding_id, role |-> role, email |-> email]
        absent == onboarding_id \notin Ids(onboardings)
        invalid == role = NULL \/ role \notin StakeholderRoles \/ ~emailRegexTest(email)
        R(code, body) == Respond("stakeholder_create", code, body, invalid, absent, fail)
    IN
    IF invalid
    THEN /\ fail = "none"
         /\ UNCHANGED <<dbvars, events_audit>>
         /\ R(400, ErrorBody)
    ELSE IF fail = "select" \/ absent
    THEN /\ UNCHANGED <<dbvars, events_audit>>
         /\ R(404, ErrorBody)
    ELSE IF fail = "insert" \/ ~StakeholderRowOk(row)
    THEN /\ UNCHANGED <<dbvars, events_audit>>
         /\ R(500, ErrorBody)
    ELSE /\ stakeholders' = Append(stakeholders, row)
         /\ UNCHANGED <<customers, onboardings, tasks, integrations>>
         /\ IF fail = "events_audit"
            THEN /\ UNCHANGED events_audit
                 /\ R(500, ErrorBody)
            ELSE /\ events_audit' = createAuditRecord(events_audit,
                        [entity_type |-> "stakeholder", entity_id |-> sid,
                         event_type |-> "stakeholder_created",
                         metadata |-> ApiMeta([onboarding_id |-> onboarding_id])])
                 /\ R(200, {"stakeholder"})

\* PUT stakeholders/update/[id]: body {role, email, ...}; NULL, NoEmail = not provided
StakeholderUpdate(id, role, email, fail) ==
    LET absent == id \notin Ids(stakeholders)
        invalid == \/ (role /= NULL /\ role \notin StakeholderRoles)
                   \/ (email /= NoEmail /\ ~emailRegexTest(email))
        R(code, body) == Respond("stakeholder_update", code, body, invalid, absent, fail)
        old == stakeholders[id]
        row == [old EXCEPT !.role = IF role /= NULL THEN role ELSE old.role,
                           !.email = IF email /= NoEmail THEN email ELSE old.email]
    IN
    IF fail = "select" \/ absent
    THEN /\ UNCHANGED <<dbvars, events_audit>>
         /\ R(404, ErrorBody)
    ELSE IF invalid
    THEN /\ fail = "none"
         /\ UNCHANGED <<dbvars, events_audit>>
         /\ R(400, ErrorBody)
    ELSE IF fail = "update" \/ ~StakeholderRowOk(row)
    THEN /\ UNCHANGED <<dbvars, events_audit>>
         /\ R(500, ErrorBody)
    ELSE /\ stakeholders' = SetRow(stakeholders, id, row)
         /\ UNCHANGED <<customers, onboardings, tasks, integrations>>
         /\ IF fail = "events_audit"
            THEN /\ UNCHANGED events_audit
                 /\ R(500, ErrorBody)
            ELSE /\ events_audit' = createAuditRecord(events_audit,
                        [entity_type |-> "stakeholder", entity_id |-> id,
                         event_type |-> "stakeholder_updated",
                         metadata |-> ApiMeta([onboarding_id |-> row.onboarding_id])])
                 /\ R(200, {"stakeholder"})

(***************************************************************************)
(* Integration routes: POST (create) and PUT update/[id].                  *)
(***************************************************************************)
\* POST integrations: body {onboarding_id, type, name, configuration}; type NULL = missing
IntegrationCreate(onboarding_id, type, fail) ==
    LET iid == Len(integrations) + 1
        row == [onboarding_id |-> onboarding_id, type |-> type,
                status |-> "not_configured"]
        absent == onboarding_id \notin Ids(onboardings)
        invalid == type = NULL \/ type \notin IntegrationTypes
        R(code, body) == Respond("integration_create", code, body, invalid, absent, fail)
    IN
    IF invalid
    THEN /\ fail = "none"
         /\ UNCHANGED <<dbvars, events_audit>>
         /\ R(400, ErrorBody)
    ELSE IF fail = "select" \/ absent
    THEN /\ UNCHANGED <<dbvars, events_audit>>
         /\ R(404, ErrorBody)
    ELSE IF fail = "insert" \/ ~IntegrationRowOk(row)
    THEN /\ UNCHANGED <<dbvars, events_audit>>
         /\ R(500, ErrorBody)
    ELSE /\ integrations' = Append(integrations, row)
         /\ UNCHANGED <<customers, onboardings, tasks, stakeholders>>
         /\ IF fail = "events_audit"
            THEN /\ UNCHANGED events_audit
                 /\ R(500, ErrorBody)
            ELSE /\ events_audit' = createAuditRecord(events_audit,
                        [entity_type |-> "integration", entity_id |-> iid,
                         event_type |-> "integration_created",
                         metadata |-> ApiMeta([onboarding_id |-> onboarding_id])])
                 /\ R(200, {"integration"})

\* the event type PUT integrations/update/[id] audits
IntegrationEventType(status, previous) ==
    IF status /= NULL /\ status /= previous
    THEN CASE status = "configured" -> "integration_configured"
           [] status = "testing"    -> "integration_tested"
           [] status = "active"     -> "integration_activated"
           [] status = "failed"     -> "integration_failed"
           [] OTHER                 -> "integration_updated"
    ELSE "integration_updated"

\* PUT integrations/update/[id]: body {type, status, ...}; NULL = field not provided
IntegrationUpdate(id, type, status, fail) ==
    LET absent == id \notin Ids(integrations)
        invalid == \/ (type /= NULL /\ type \notin IntegrationTypes)
                   \/ (status /= NULL /\ status \notin IntegrationStatuses)
        R(code, body) == Respond("integration_update", code, body, invalid, absent, fail)
        old == integrations[id]
        row == [old EXCEPT !.type = IF type /= NULL THEN type ELSE old.type,
                           !.status = IF status /= NULL THEN status ELSE old.status]
    IN
    IF fail = "select" \/ absent
    THEN /\ UNCHANGED <<dbvars, events_audit>>
         /\ R(404, ErrorBody)
    ELSE IF invalid
    THEN /\ fail = "none"
         /\ UNCHANGED <<dbvars, events_audit>>
         /\ R(400, ErrorBody)
    ELSE IF fail = "update" \/ ~IntegrationRowOk(row)
    THEN /\ UNCHANGED <<dbvars, events_audit>>
         /\ R(500, ErrorBody)
    ELSE /\ integrations' = SetRow(integrations, id, row)
         /\ UNCHANGED <<customers, onboardings, tasks, stakeholders>>
         /\ IF fail = "events_audit"
            THEN /\ UNCHANGED events_audit
                 /\ R(500, ErrorBody)
            ELSE /\ events_audit' = createAuditRecord(events_audit,
                        [entity_type |-> "integration", entity_id |-> id,
                         event_type |-> IntegrationEventType(status, old.status),
                         metadata |-> ApiMeta([onboarding_id |-> row.onboarding_id])])
                 /\ R(200, {"integration"})

(***************************************************************************)
(* The requests the model serves: for each route its successful requests,  *)
(* one request per validation rule, a reference to an absent row, and a    *)
(* store failure at each statement the handler executes.                   *)
(***************************************************************************)
FullIntake ==
    [fields |-> TRUE, go_live_date |-> DateOn(Today + 30),
     stakeholders |-> <<[role |-> "project_manager", email |-> GoodEmail]>>,
     integrations |-> <<[type |-> "API"]>>]

MinimalIntake ==
    [fields |-> TRUE, go_live_date |-> NoDate,
     stakeholders |-> <<>>, integrations |-> <<>>]

IntakeRequests ==
    { FullIntake,
      MinimalIntake,
      [MinimalIntake EXCEPT !.fields = FALSE],
      [MinimalIntake EXCEPT !.go_live_date = GarbageDate],
      [MinimalIntake EXCEPT !.go_live_date = DateOn(Today)],
      [FullIntake EXCEPT !.stakeholders = <<[role |-> "manager", email |-> GoodEmail]>>],
      [FullIntake EXCEPT !.stakeholders = <<[role |-> "owner", email |-> BadEmail]>>],
      [FullIntake EXCEPT !.integrations = <<[type |-> "FTP"]>>] }

\* a store failure is injected into requests that pass validation and reference present rows
FailIf(ok, points) == IF ok THEN points ELSE {"none"}

ReqOnboardingIntake ==
    \E req \in IntakeRequests : \E fail \in FailIf(req = FullIntake, IntakeFailPoints) :
        OnboardingIntake(req, fail)

ReqLegacyOnboardingPost ==
    \E fields \in BOOLEAN : \E fail \in FailIf(fields, LegacyFailPoints) :
        LegacyOnboardingPost(fields, fail)

ReqTaskCreate ==
    \E o \in RefIds(onboardings) : \E fields \in BOOLEAN :
    \E fail \in FailIf(fields /\ o \in Ids(onboardings), TaskFailPoints) :
        TaskCreate(o, fields, fail)

TaskUpdateRequests ==
    { [status |-> "in_progress", blocker_reason |-> NULL],
      [status |-> "completed",   blocker_reason |-> NULL],
      [status |-> "blocked",     blocker_reason |-> "waiting"],
      [status |-> "blocked",     blocker_reason |-> NULL],
      [status |-> "blocked",     blocker_reason |-> ""],
      [status |-> "done",        blocker_reason |-> NULL],
      [status |-> NULL,          blocker_reason |-> NULL] }

ReqTaskUpdate ==
    \E t \in RefIds(tasks) : \E req \in TaskUpdateRequests :
    \E fail \in FailIf(t \in Ids(tasks) /\ req.status \in TaskStatuses, TaskFailPoints) :
        TaskUpdate(t, req.status, req.blocker_reason, fail)

ReqBlockerCreate ==
    \E t \in RefIds(tasks) : \E o \in RefIds(onboardings) :
    \E reason \in {NULL, "", "waiting"} :
    \E fail \in FailIf(t \in Ids(tasks) /\ o \in Ids(onboardings) /\ ~Falsy(reason),
                       BlockerCreateFailPoints) :
        BlockerCreate(t, o, reason, fail)

ReqBlockerResolve ==
    \E t \in RefIds(tasks) : \E action \in {NULL, "resolve", "reopen"} :
    \E fail \in FailIf(t \in Ids(tasks) /\ action = "resolve", BlockerResolveFailPoints) :
        BlockerResolve(t, action, fail)

StakeholderCreateRequests ==
    { [role |-> "owner",   email |-> GoodEmail],
      [role |-> "manager", email |-> GoodEmail],
      [role |-> "owner",   email |-> BadEmail],
      [role |-> NULL,      email |-> GoodEmail] }

ReqStakeholderCreate ==
    \E o \in RefIds(onboardings) : \E req \in StakeholderCreateRequests :
    \E fail \in FailIf(o \in Ids(onboardings) /\ req.role = "owner" /\ req.email = GoodEmail,
                       CreateFailPoints) :
        StakeholderCreate(o, req.role, req.email, fail)

StakeholderUpdateRequests ==
    { [role |-> "technical_lead", email |-> NoEmail],
      [role |-> "manager",        email |-> NoEmail],
      [role |-> NULL,             email |-> BadEmail] }

ReqStakeholderUpdate ==
    \E id \in RefIds(stakeholders) : \E req \in StakeholderUpdateRequests :
    \E fail \in FailIf(id \in Ids(stakeholders) /\ req.role = "technical_lead",
                       UpdateFailPoints) :
        StakeholderUpdate(id, req.role, req.email, fail)

ReqIntegrationCreate ==
    \E o \in RefIds(onboardings) : \E type \in {NULL, "SIS", "FTP"} :
    \E fail \in FailIf(o \in Ids(onboardings) /\ type = "SIS", CreateFailPoints) :
        IntegrationCreate(o, type, fail)

IntegrationUpdateRequests ==
    { [type |-> NULL,  status |-> "testing"],
      [type |-> NULL,  status |-> "active"],
      [type |-> "CRM", status |-> NULL],
      [type |-> "FTP", status |-> NULL],
      [type |-> NULL,  status |-> "ready"] }

ReqIntegrationUpdate ==
    \E id \in RefIds(integrations) : \E req \in IntegrationUpdateRequests :
    \E fail \in FailIf(id \in Ids(integrations) /\ req.status = "active", UpdateFailPoints) :
        IntegrationUpdate(id, req.type, req.status, fail)

(***************************************************************************)
(* GET /api/audit: builds filters from the query string and reads the      *)
(* ledger (queryAuditTrail) or summarises it (generateAuditSummary).  Both *)
(* only select from events_audit; a failed select is thrown and answered   *)
(* with a 500.                                                             *)
(***************************************************************************)
AuditQueryFailPoints == {"none", "select_events_audit"}

\* limit and offset as parsed from the query string, each <<>> when not
\* given and <<n>> otherwise; the filters keep a limit in 1..1000 and an
\* offset of at least 0, and the query runs with whatever filters were kept
AuditQuery(summaryRequested, limit, offset, fail) ==
    LET filters == [limit  |-> IF limit /= <<>> /\ limit[1] > 0 /\ limit[1] <= 1000
                               THEN limit ELSE <<>>,
                    offset |-> IF offset /= <<>> /\ offset[1] >= 0 THEN offset ELSE <<>>]
        invalid == filters /= [limit |-> limit, offset |-> offset]
    IN /\ UNCHANGED <<dbvars, events_audit>>
       /\ IF fail = "select_events_audit"
          THEN Respond("audit_query", 500, ErrorBody, invalid, FALSE, fail)
          ELSE Respond("audit_query", 200,
                       IF summaryRequested THEN {"summary"}
                       ELSE {"audit_records", "count", "filters"},
                       invalid, FALSE, fail)

AuditQueryRequests ==
    { [limit |-> <<>>,     offset |-> <<>>],
      [limit |-> <<50>>,   offset |-> <<0>>],
      [limit |-> <<1001>>, offset |-> <<>>],
      [limit |-> <<0>>,    offset |-> <<>>],
      [limit |-> <<>>,     offset |-> <<-1>>] }

ReqAuditQuery ==
    \E summaryRequested \in BOOLEAN :
    \E req \in AuditQueryRequests :
    \E fail \in AuditQueryFailPoints :
        AuditQuery(summaryRequested, req.limit, req.offset, fail)

\* a request is served while the request budget lasts; the routes leave
\* the escalation runs and the notification gateway alone
Served == nreq < MaxRequests /\ UNCHANGED <<runs, outbox>>

Next ==
    \/ Served /\ ReqAuditQuery
    \/ Served /\ ReqOnboardingIntake
    \/ Served /\ ReqLegacyOnboardingPost
    \/ Served /\ ReqTaskCreate
    \/ Served /\ ReqTaskUpdate
    \/ Served /\ ReqBlockerCreate
    \/ Served /\ ReqBlockerResolve
    \/ Served /\ ReqStakeholderCreate
    \/ Served /\ ReqStakeholderUpdate
    \/ Served /\ ReqIntegrationCreate
    \/ Served /\ ReqIntegrationUpdate

NoResponse ==
    [route |-> "none", code |-> 0, body |-> {}, invalid |-> FALSE, absent |-> FALSE,
     fail |-> "none", wrote |-> FALSE, asked |-> NoneAsked,
     added |-> [customers |-> 0, onboardings |-> 0, stakeholders |-> 0, integrations |-> 0],
     appended |-> 0]

\* the empty store, before any request
Init ==
    /\ customers = <<>>
    /\ onboardings = <<>>
    /\ tasks = <<>>
    /\ stakeholders = <<>>
    /\ integrations = <<>>
    /\ events_audit = <<>>
    /\ now = 0
    /\ nreq = 0
    /\ resp = NoResponse
    /\ runs = <<>>
    /\ outbox = <<>>

Spec == Init /\ [][Next]_vars

(***************************************************************************)
(* The task and blocker routes on their own, over one onboarding with one  *)
(* pending task, as intake and task creation leave the store.              *)
(***************************************************************************)
InitTasks ==
    /\ now = 2
    /\ customers = <<[name |-> "acme"]>>
    /\ onboardings = <<[customer_id |-> 1, status |-> "not_started", go_live_date |-> NoDate]>>
    /\ tasks = <<[onboarding_id |-> 1, task_type |-> "sis_setup", owner_role |-> "it_contact",
                  status |-> "pending", priority |-> "medium", due_date |-> NoDate,
                  completed_at |-> NoTime, is_blocker |-> FALSE, blocker_reason |-> NULL]>>
    /\ stakeholders = <<>>
    /\ integrations = <<>>
    /\ events_audit = createAuditRecords(<<>>,
          << [entity_type |-> "customer", entity_id |-> 1, event_type |-> "customer_created",
              metadata |-> ApiMeta([onboarding_id |-> 1])],
             [entity_type |-> "onboarding", entity_id |-> 1, event_type |-> "onboarding_created",
              metadata |-> ApiMeta([customer_id |-> 1])],
             [entity_type |-> "task", entity_id |-> 1, event_type |-> "task_created",
              metadata |-> ApiMeta([onboarding_id |-> 1])] >>)
    /\ nreq = 0
    /\ resp = NoResponse
    /\ runs = <<>>
    /\ outbox = <<>>

TaskServed == nreq < MaxTaskRequests /\ UNCHANGED <<runs, outbox>>

TasksNext ==
    \/ TaskServed /\ ReqTaskCreate
    \/ TaskServed /\ ReqTaskUpdate
    \/ TaskServed /\ ReqBlockerCreate
    \/ TaskServed /\ ReqBlockerResolve

SpecTasks == InitTasks /\ [][TasksNext]_vars

(***************************************************************************)
(* The audit ledger on its own: createAuditRecord and createAuditRecords   *)
(* called with whatever record a caller builds.  metadata is optional in   *)
(* CreateAuditRecord, and the convenience wrappers (auditTaskCreated ...)  *)
(* pass their optional metadata argument through unchanged.                *)
(***************************************************************************)
CallerMetadata ==
    { NoMetadata,
      ApiMeta(NoMetadata),
      [source |-> "system"],
      [trigger |-> "automated_check", timestamp |-> 0 - 1] }

CallerRecords ==
    { [entity_type |-> e, entity_id |-> 1, event_type |-> e \o "_created", metadata |-> m] :
        e \in {"task", "system"}, m \in CallerMetadata }

LedgerAppend ==
    \E record \in CallerRecords :
    \E fail \in {"none", "events_audit"} :
        /\ events_audit' = IF fail = "none" THEN createAuditRecord(events_audit, record)
                           ELSE events_audit
        /\ UNCHANGED dbvars
        /\ Respond("append", IF fail = "none" THEN 200 ELSE 500, {}, FALSE, FALSE, fail)

LedgerAppendBatch ==
    \E r1 \in CallerRecords : \E r2 \in CallerRecords :
    \E fail \in {"none", "events_audit"} :
        /\ events_audit' = IF fail = "none" THEN createAuditRecords(events_audit, <<r1, r2>>)
                           ELSE events_audit
        /\ UNCHANGED dbvars
        /\ Respond("append_batch", IF fail = "none" THEN 200 ELSE 500, {}, FALSE, FALSE, fail)

LedgerNext ==
    \/ nreq < MaxAppends /\ UNCHANGED <<runs, outbox>> /\ LedgerAppend
    \/ nreq < MaxAppends /\ UNCHANGED <<runs, outbox>> /\ LedgerAppendBatch

SpecLedger == Init /\ [][LedgerNext]_vars

(***************************************************************************)
(* Escalation rules (lib/escalation-logic).                                *)
(***************************************************************************)
Rule(days, chain, urgency) ==
    [overdueThresholdDays |-> days, escalationChain |-> chain, urgencyLevel |-> urgency]

ESCALATION_RULES ==
    [kickoff_meeting     |-> Rule(1, <<"project_manager", "owner">>, "high"),
     sis_setup           |-> Rule(2, <<"technical_lead", "project_manager", "owner">>, "critical"),
     crm_setup           |-> Rule(3, <<"technical_lead", "project_manager">>, "high"),
     sftp_setup          |-> Rule(3, <<"technical_lead", "project_manager">>, "high"),
     api_setup           |-> Rule(3, <<"technical_lead", "project_manager">>, "high"),
     security_review     |-> Rule(2, <<"technical_lead", "project_manager", "owner">>, "critical"),
     compliance_check    |-> Rule(2, <<"technical_lead", "project_manager", "owner">>, "critical"),
     go_live_preparation |-> Rule(1, <<"project_manager", "owner">>, "critical")]

DEFAULT_ESCALATION_RULE == Rule(3, <<"project_manager", "owner">>, "medium")

Min_First(a, b) == a

Min(a, b) == IF a <= b THEN a ELSE b

NoEscalation(daysOverdue) ==
    [shouldEscalate |-> FALSE, escalateTo |-> <<>>, urgencyLevel |-> "low",
     daysOverdue |-> daysOverdue]

escalationLevel_Inverted(daysOverdue, rule) ==
    IF daysOverdue >= rule.overdueThresholdDays * 3 THEN 0
    ELSE IF daysOverdue >= rule.overdueThresholdDays * 2
    THEN Min(Len(rule.escalationChain) - 1, 1)
    ELSE Min(Len(rule.escalationChain) - 1, 2)

escalationLevel(daysOverdue, rule) ==
    IF daysOverdue >= rule.overdueThresholdDays * 3
    THEN Min(Len(rule.escalationChain) - 1, 2)
    ELSE IF daysOverdue >= rule.overdueThresholdDays * 2
    THEN Min(Len(rule.escalationChain) - 1, 1)
    ELSE 0

RuleFor(task_type) ==
    IF task_type \in DOMAIN ESCALATION_RULES
    THEN ESCALATION_RULES[task_type]
    ELSE DEFAULT_ESCALATION_RULE

shouldEscalateTask_AboveThreshold(task) ==
    IF task.due_date.kind /= "date" THEN NoEscalation(0)
    ELSE LET daysOverdue == Today - task.due_date.day
             rule == RuleFor(task.task_type)
         IN IF daysOverdue <= rule.overdueThresholdDays THEN NoEscalation(daysOverdue)
            ELSE [shouldEscalate |-> TRUE,
                  escalateTo     |-> SubSeq(rule.escalationChain, 1,
                                            escalationLevel(daysOverdue, rule) + 1),
                  urgencyLevel   |-> rule.urgencyLevel,
                  daysOverdue    |-> daysOverdue]

shouldEscalateTask(task) ==
    IF task.due_date.kind /= "date" THEN NoEscalation(0)
    ELSE LET daysOverdue == Today - task.due_date.day
             rule == RuleFor(task.task_type)
         IN IF daysOverdue <= 0 THEN NoEscalation(0)
            ELSE IF daysOverdue < rule.overdueThresholdDays THEN NoEscalation(daysOverdue)
            ELSE [shouldEscalate |-> TRUE,
                  escalateTo     |-> SubSeq(rule.escalationChain, 1,
                                            escalationLevel(daysOverdue, rule) + 1),
                  urgencyLevel   |-> rule.urgencyLevel,
                  daysOverdue    |-> daysOverdue]

\* the tasks of a list that need escalation, each with its escalation
\* result, in list order
RECURSIVE findTasksNeedingEscalation_All(_, _)
findTasksNeedingEscalation_All(table, ids) ==
    IF ids = <<>> THEN <<>>
    ELSE LET escalationResult == shouldEscalateTask(table[Head(ids)])
         IN (IF escalationResult.shouldEscalate
             THEN <<[task |-> Head(ids), escalationResult |-> escalationResult]>>
             ELSE <<>>)
            \o findTasksNeedingEscalation_All(table, Tail(ids))

RECURSIVE findTasksNeedingEscalation(_, _)
findTasksNeedingEscalation(table, ids) ==
    IF ids = <<>> THEN <<>>
    ELSE LET escalationResult == shouldEscalateTask(table[Head(ids)])
         IN (IF table[Head(ids)].status /= "completed"
                /\ escalationResult.shouldEscalate
             THEN <<[task |-> Head(ids), escalationResult |-> escalationResult]>>
             ELSE <<>>)
            \o findTasksNeedingEscalation(table, Tail(ids))

\* emails of the first stakeholder of each role, in role order
RECURSIVE RecipientsFor(_, _)
RecipientsFor(roles, shs) ==
    IF roles = <<>> THEN <<>>
    ELSE LET found == {i \in Ids(shs) : shs[i].role = Head(roles)}
         IN (IF found = {} THEN <<>>
             ELSE <<shs[CHOOSE i \in found : \A j \in found : i <= j].email>>)
            \o RecipientsFor(Tail(roles), shs)

BlockerEscalationMap_Self ==
    [it_contact      |-> <<"it_contact", "project_manager">>,
     technical_lead  |-> <<"project_manager", "owner">>,
     project_manager |-> <<"owner">>,
     owner           |-> <<"project_manager">>]

BlockerEscalationMap ==
    [it_contact      |-> <<"technical_lead", "project_manager">>,
     technical_lead  |-> <<"project_manager", "owner">>,
     project_manager |-> <<"owner">>,
     owner           |-> <<"project_manager">>]

\* task_type.includes(word), for the task types of the program
TaskTypesIncluding ==
    [security |-> {"security_review"},
     sis      |-> {"sis_setup", "sis_testing"},
     setup    |-> {"sis_setup", "crm_setup", "sftp_setup", "api_setup", "integration_setup"},
     go_live  |-> {"go_live_preparation", "go_live"}]

BlockerUrgencyLevel(task) ==
    IF task.priority = "critical"
       \/ task.task_type \in TaskTypesIncluding.security
       \/ task.task_type \in TaskTypesIncluding.sis
    THEN "critical"
    ELSE IF task.priority = "high"
            \/ task.task_type \in TaskTypesIncluding.setup
            \/ task.task_type \in TaskTypesIncluding.go_live
    THEN "high"
    ELSE IF task.priority = "low" THEN "low"
    ELSE "medium"

getBlockerEscalationRecipients(task, shs) ==
    [escalateTo   |-> RecipientsFor(IF task.owner_role \in DOMAIN BlockerEscalationMap
                                    THEN BlockerEscalationMap[task.owner_role]
                                    ELSE <<"project_manager">>,
                                    shs),
     urgencyLevel |-> BlockerUrgencyLevel(task)]

\* ids of the tasks of an onboarding that are not completed, in table order
RECURSIVE OpenTasks(_, _, _)
OpenTasks(table, oid, from) ==
    IF from > Len(table) THEN <<>>
    ELSE (IF table[from].onboarding_id = oid /\ table[from].status /= "completed"
          THEN <<from>> ELSE <<>>) \o OpenTasks(table, oid, from + 1)

\* tasks.filter(task => task.is_blocker)
RECURSIVE blockedTasks(_, _)
blockedTasks(table, ids) ==
    IF ids = <<>> THEN <<>>
    ELSE (IF table[Head(ids)].is_blocker THEN <<Head(ids)>> ELSE <<>>)
         \o blockedTasks(table, Tail(ids))

(***************************************************************************)
(* POST /api/escalations -> processOnboardingEscalations, as a process:    *)
(* each await between the dedup read, the notification and the audit write *)
(* is a point where another run can be scheduled.                          *)
(*                                                                         *)
(* A run keeps, besides its position:                                      *)
(*   overdue  - tasksNeedingEscalation still to handle, with their results *)
(*   blocked  - blockedTasks still to handle                               *)
(*   after    - the runs that had returned when this one started           *)
(*   reads    - per dedup read: what it returned (found) and how many      *)
(*              blocker escalation records of the last 24 hours the ledger *)
(*              held for the task at that moment (present)                 *)
(*   sent, wrote - blocker notifications sent and escalation records       *)
(*              written by the run, with their time                        *)
(***************************************************************************)
DedupWindowHours == 24

NewRun(oid, after) ==
    [onboarding |-> oid, pc |-> "done", overdue |-> <<>>, blocked |-> <<>>,
     triggered |-> 0, errors |-> 0, after |-> after,
     reads |-> {}, sent |-> {}, wrote |-> {}]

\* a run that gives up at its first error
NextPc_StopOnError(run) ==
    IF run.errors > 0 THEN "done"
    ELSE IF run.overdue /= <<>> THEN "overdue"
    ELSE IF run.blocked /= <<>> THEN "dedup"
    ELSE "done"

NextPc(run) ==
    IF run.overdue /= <<>> THEN "overdue"
    ELSE IF run.blocked /= <<>> THEN "dedup"
    ELSE "done"

Continue(run) == [run EXCEPT !.pc = NextPc(run)]

\* the dedup query of the blocked-task loop
RecentEscalations(ledger, task_id) ==
    {i \in Ids(ledger) :
        /\ ledger[i].entity_type = "escalation"
        /\ ledger[i].entity_id = task_id
        /\ ledger[i].event_type = "blocker_escalated"
        /\ ledger[i].created_at >= now - DedupWindowHours}

\* the escalation record of the blocked-task loop
BlockerEscalationRecord(task_id, task, oid, escalateTo) ==
    [entity_type |-> "escalation", entity_id |-> task_id,
     event_type |-> "escalation_triggered",
     metadata |-> [escalation_type |-> "blocker", blocker_reason |-> task.blocker_reason,
                   escalated_to |-> escalateTo, onboarding_id |-> oid,
                   source |-> "system", trigger |-> "automated"]]

\* blocker escalation records of the dedup window that the ledger holds for a task
BlockerEscalationsOf(ledger, task_id) ==
    {i \in Ids(ledger) :
        /\ ledger[i].entity_type = "escalation"
        /\ ledger[i].entity_id = task_id
        /\ "escalation_type" \in DOMAIN ledger[i].metadata
        /\ ledger[i].metadata.escalation_type = "blocker"
        /\ ledger[i].created_at >= now - DedupWindowHours}

\* a write that first looks for an escalation record of the task
BlockerEscalationWrite_IfAbsent(ledger, record) ==
    IF BlockerEscalationsOf(ledger, record.entity_id) /= {} THEN ledger
    ELSE createAuditRecord(ledger, record)

\* the audit write of the blocked-task loop
BlockerEscalationWrite(ledger, record) == createAuditRecord(ledger, record)

EscUnchanged == UNCHANGED <<dbvars, now, nreq, resp>>

\* the run starts: reads tasks, stakeholders and the onboarding, and works
\* out the overdue and the blocked tasks; resp is the response of the last
\* request served, and there is none while a run is in progress
EscStart ==
    /\ Len(runs) < MaxRuns
    /\ \E oid \in Ids(onboardings) :
       \E fail \in {"none", "select"} :
        LET after == {r \in Ids(runs) : runs[r].pc = "done"}
            mine == OpenTasks(tasks, oid, 1)
            needing == findTasksNeedingEscalation(tasks, mine)
            run == [NewRun(oid, after) EXCEPT
                      !.overdue = [k \in 1..Len(needing) |->
                                     [task |-> needing[k].task,
                                      result |-> needing[k].escalationResult]],
                      !.blocked = blockedTasks(tasks, mine)]
        IN runs' = Append(runs, IF fail = "select"
                                THEN [NewRun(oid, after) EXCEPT !.errors = 1]
                                ELSE Continue(run))
    /\ resp' = NoResponse
    /\ UNCHANGED <<dbvars, events_audit, now, nreq, outbox>>

\* one pass of the overdue loop: notify, and record the escalation if the
\* notification succeeded
EscOverdue(r) ==
    /\ runs[r].pc = "overdue"
    /\ LET run == runs[r]
           item == Head(run.overdue)
           recipients == RecipientsFor(item.result.escalateTo, stakeholders)
           rest == [run EXCEPT !.overdue = Tail(run.overdue)]
       IN \E ok \in BOOLEAN :
          \E fail \in {"none", "events_audit"} :
            LET success == recipients /= <<>> /\ ok
                written == success /\ fail = "none"
            IN /\ recipients = <<>> => ok
               /\ ~success => fail = "none"
               /\ outbox' = IF success
                            THEN Append(outbox,
                                    [type |-> "task_escalated", task |-> item.task,
                                     recipients |-> recipients,
                                     urgency |-> item.result.urgencyLevel, run |-> r])
                            ELSE outbox
               /\ events_audit' =
                    IF written
                    THEN createAuditRecord(events_audit,
                            [entity_type |-> "escalation", entity_id |-> item.task,
                             event_type |-> "escalation_triggered",
                             metadata |-> [escalation_type |-> "task_overdue",
                                           days_overdue |-> item.result.daysOverdue,
                                           escalated_to |-> item.result.escalateTo,
                                           urgency_level |-> item.result.urgencyLevel,
                                           onboarding_id |-> run.onboarding,
                                           source |-> "system", trigger |-> "automated"]])
                    ELSE events_audit
               /\ runs' = [runs EXCEPT ![r] =
                            Continue(IF written
                                     THEN [rest EXCEPT !.triggered = @ + 1]
                                     ELSE [rest EXCEPT !.errors = @ + 1])]
    /\ EscUnchanged

\* the dedup read for the next blocked task
EscDedupRead(r) ==
    /\ runs[r].pc = "dedup"
    /\ LET run == runs[r]
           t == Head(run.blocked)
           recentEscalations == RecentEscalations(events_audit, t)
           rest == [run EXCEPT !.blocked = Tail(run.blocked)]
           read == [task |-> t, found |-> Cardinality(recentEscalations),
                    present |-> Cardinality(BlockerEscalationsOf(events_audit, t))]
       IN \E fail \in {"none", "select_events_audit"} :
            runs' = [runs EXCEPT ![r] =
                IF fail /= "none" THEN Continue([rest EXCEPT !.errors = @ + 1])
                ELSE IF recentEscalations = {}
                THEN [run EXCEPT !.pc = "notify", !.reads = @ \cup {read}]
                ELSE Continue([rest EXCEPT !.reads = @ \cup {read}])]
    /\ UNCHANGED <<events_audit, outbox>>
    /\ EscUnchanged

\* notifyStakeholdersAboutBlocker for the task whose dedup read was empty
EscNotify(r) ==
    /\ runs[r].pc = "notify"
    /\ LET run == runs[r]
           t == Head(run.blocked)
           escalateTo == getBlockerEscalationRecipients(tasks[t], stakeholders).escalateTo
           rest == [run EXCEPT !.blocked = Tail(run.blocked)]
       IN \E ok \in BOOLEAN :
            /\ outbox' = IF ok
                         THEN Append(outbox,
                                 [type |-> "blocker_created", task |-> t,
                                  recipients |-> escalateTo,
                                  urgency |-> IF tasks[t].priority = "critical"
                                              THEN "critical" ELSE "high",
                                  run |-> r])
                         ELSE outbox
            /\ runs' = [runs EXCEPT ![r] =
                IF ok THEN [run EXCEPT !.pc = "audit",
                                       !.sent = @ \cup {[task |-> t, at |-> now]}]
                ELSE Continue([rest EXCEPT !.errors = @ + 1])]
    /\ UNCHANGED events_audit
    /\ EscUnchanged

\* the escalation record for the task just notified about
EscAuditWrite(r) ==
    /\ runs[r].pc = "audit"
    /\ LET run == runs[r]
           t == Head(run.blocked)
           escalateTo == getBlockerEscalationRecipients(tasks[t], stakeholders).escalateTo
           rest == [run EXCEPT !.blocked = Tail(run.blocked)]
       IN \E fail \in {"none", "events_audit"} :
            /\ events_audit' =
                 IF fail = "none"
                 THEN BlockerEscalationWrite(events_audit,
                        BlockerEscalationRecord(t, tasks[t], run.onboarding, escalateTo))
                 ELSE events_audit
            /\ runs' = [runs EXCEPT ![r] =
                 Continue(IF fail = "none"
                          THEN [rest EXCEPT !.triggered = @ + 1,
                                            !.wrote = @ \cup {[task |-> t, at |-> now]}]
                          ELSE [rest EXCEPT !.errors = @ + 1])]
    /\ UNCHANGED outbox
    /\ EscUnchanged

\* time passes; a run takes far less than one step of the clock, so the
\* clock steps between runs
Tick ==
    /\ \A r \in Ids(runs) : runs[r].pc = "done"
    /\ now < StartNow + MaxTicks * TickHours
    /\ now' = now + TickHours
    /\ UNCHANGED <<dbvars, events_audit, nreq, resp, runs, outbox>>

\* GET escalations: the escalation records of the ledger, of one onboarding
\* if onboarding_id is given (0 = not given); served between runs
EscalationsGet ==
    /\ \A r \in Ids(runs) : runs[r].pc = "done"
    /\ \E onboardingId \in {0} \cup Ids(onboardings) :
       \E fail \in {"none", "select_events_audit"} :
        LET escalations ==
                {i \in Ids(events_audit) :
                    /\ events_audit[i].entity_type = "escalation"
                    /\ events_audit[i].event_type \in {"task_escalated", "blocker_escalated"}
                    /\ onboardingId /= 0 =>
                          events_audit[i].metadata.onboarding_id = onboardingId}
        IN resp' = [escalations |-> IF fail = "none" THEN escalations ELSE {},
                    onboarding_id |-> onboardingId]
                   @@ [NoResponse EXCEPT !.route = "escalations_get",
                                         !.code = IF fail = "none" THEN 200 ELSE 500,
                                         !.body = IF fail = "none" THEN {"escalations"}
                                                  ELSE ErrorBody,
                                         !.fail = fail]
    /\ UNCHANGED <<dbvars, events_audit, now, nreq, runs, outbox>>

EscNext ==
    \/ EscStart
    \/ \E r \in Ids(runs) : EscOverdue(r)
    \/ \E r \in Ids(runs) : EscDedupRead(r)
    \/ \E r \in Ids(runs) : EscNotify(r)
    \/ \E r \in Ids(runs) : EscAuditWrite(r)
    \/ Tick

(***************************************************************************)
(* The store when the escalation runs begin: one onboarding with a blocked *)
(* task, as intake, task creation and POST blockers leave it, some days    *)
(* after the task was created.                                             *)
(***************************************************************************)
SeedTask(status, is_blocker, blocker_reason, due_date) ==
    [onboarding_id |-> 1, task_type |-> "sis_setup", owner_role |-> "it_contact",
     status |-> status, priority |-> "medium", due_date |-> due_date,
     completed_at |-> NoTime, is_blocker |-> is_blocker, blocker_reason |-> blocker_reason]

SeedStakeholder(role) == [role |-> role, onboarding_id |-> 1, email |-> GoodEmail]

\* the task and stakeholder tables: a blocked task alone; a blocked task that
\* is overdue as well, with the technical lead its escalation goes to; a
\* blocked task and an overdue one whose escalation has no recipient; a
\* blocked task when only the owner is listed
SeedStores ==
    { << <<SeedTask("blocked", TRUE, "waiting", NoDate)>>,
         <<SeedStakeholder("owner")>> >> } \cup
    { << <<SeedTask("blocked", TRUE, "waiting", NoDate)>>,
         <<SeedStakeholder("project_manager")>> >>,
      << <<SeedTask("blocked", TRUE, "waiting", DateOn(1))>>,
         <<SeedStakeholder("project_manager"), SeedStakeholder("technical_lead")>> >>,
      << <<SeedTask("blocked", TRUE, "waiting", NoDate),
           SeedTask("pending", FALSE, NULL, DateOn(1))>>,
         <<SeedStakeholder("project_manager")>> >> }

InitEsc ==
    /\ customers = <<[name |-> "acme"]>>
    /\ onboardings = <<[customer_id |-> 1, status |-> "blocked", go_live_date |-> NoDate]>>
    /\ \E seed \in SeedStores : tasks = seed[1] /\ stakeholders = seed[2]
    /\ integrations = <<>>
    /\ events_audit =
          <<[entity_type |-> "blocker", entity_id |-> 1, event_type |-> "blocker_created",
             metadata |-> [timestamp |-> 0, system_version |-> "unknown",
                           environment |-> "development"]
                          @@ ApiMeta([onboarding_id |-> 1, blocker_reason |-> "waiting"]),
             created_at |-> 0]>>
    /\ now = StartNow
    /\ nreq = 0
    /\ resp = NoResponse
    /\ runs = <<>>
    /\ outbox = <<>>

SpecEsc == InitEsc /\ [][EscNext]_vars

\* the runs together with the query of what they recorded
EscQueryNext ==
    \/ EscNext
    \/ EscalationsGet

SpecEscQuery == InitEsc /\ [][EscQueryNext]_vars

(***************************************************************************)
(* Properties of the request handlers (Spec) and of the ledger             *)
(* (SpecLedger).                                                           *)
(***************************************************************************)
AuditedRoutes ==
    {"task_create", "task_update", "blocker_create", "blocker_resolve",
     "stakeholder_create", "stakeholder_update",
     "integration_create", "integration_update"}

IntakeRoutes == {"onboarding_intake", "onboarding_legacy"}

\* the store statements of a handler that write a domain table
DomainWriteFailPoints ==
    {"customers", "onboardings", "onboarding_tasks", "stakeholders", "integrations",
     "insert", "update"}

SuccessKeys == {"success", "onboarding_id", "customer_id"}

\* C3: a request whose audit write fails after its domain write succeeded
\* still reports success to its caller, and the domain write stays in place.
C3_AuditFailureStillSucceeds ==
    (resp.route \in AuditedRoutes \cup {"onboarding_intake"} /\ resp.fail = "events_audit")
        => (resp.code = 200 /\ "success" \in resp.body /\ resp.wrote)

\* C4: no core operation changes or removes an audit record already in the
\* ledger; the ledger only grows at its end.
C4_LedgerAppendOnly ==
    [][ /\ Len(events_audit') >= Len(events_audit)
        /\ \A i \in 1..Len(events_audit) : events_audit'[i] = events_audit[i] ]_vars

\* C4 witness: a request appended to a ledger that already held rows written
\* by an earlier request.
C4_Witness ==
    /\ Len(events_audit) >= 2
    /\ resp.appended >= 1
    /\ events_audit[1].created_at < events_audit[Len(events_audit)].created_at

\* C5: every record persisted by createAuditRecord or createAuditRecords has
\* timestamp, environment, source and trigger in its metadata, whatever
\* metadata the caller supplied, including none.
C5_MetadataComplete ==
    \A i \in Ids(events_audit) :
        {"timestamp", "environment", "source", "trigger"}
            \subseteq DOMAIN events_audit[i].metadata

\* C6: with the ledger available, a successful request on the task, blocker,
\* stakeholder and integration routes appends exactly one audit record, and
\* a request one of whose domain writes fails appends none.
C6_OneAuditPerChange ==
    (resp.route \in AuditedRoutes /\ resp.fail /= "events_audit")
        => /\ resp.code = 200 => resp.appended = 1
           /\ resp.fail \in DomainWriteFailPoints => resp.appended = 0

\* C7: a request that fails validation (bad role, bad status, bad email
\* shape, non-future go-live date, missing required field) is rejected and
\* writes nothing, neither domain rows nor audit records.
C7_InvalidRejectedWithoutWrites ==
    resp.invalid => (resp.code /= 200 /\ ~resp.wrote /\ resp.appended = 0)

\* C8: a request naming a task, stakeholder, integration or onboarding that
\* does not exist is rejected, changes nothing and appends no audit record.
C8_AbsentRejectedWithoutWrites ==
    resp.absent => (resp.code /= 200 /\ ~resp.wrote /\ resp.appended = 0)

\* every domain row an intake was asked for is in the store
IntakeRowsPersisted ==
    /\ resp.added.customers = 1
    /\ resp.added.onboardings = 1
    /\ resp.added.stakeholders = resp.asked.stakeholders
    /\ resp.added.integrations = resp.asked.integrations

C10_BlockerHasReason ==
    \A t \in Ids(tasks) : tasks[t].is_blocker => ~Falsy(tasks[t].blocker_reason)

\* C10 witness: a task became a blocker through the task update or the
\* blocker route.
C10_Witness ==
    /\ resp.route \in {"task_update", "blocker_create"}
    /\ resp.code = 200
    /\ \E t \in Ids(tasks) : tasks[t].is_blocker /\ tasks[t].status = "blocked"

(***************************************************************************)
(* Properties of the escalation runs (SpecEsc).                            *)
(***************************************************************************)
\* C1: once a run has sent a blocker notification and recorded the
\* escalation for a blocked task, a later run that does not overlap it sends
\* no blocker notification and writes no escalation record for that task
\* within the next 24 hours.
C1_DedupWithin24h ==
    \A r1 \in Ids(runs) : \A r2 \in Ids(runs) :
        r1 \in runs[r2].after =>
            \A w \in runs[r1].wrote : \A again \in runs[r2].sent \cup runs[r2].wrote :
                (w.task = again.task /\ (\E n \in runs[r1].sent : n.task = w.task))
                    => again.at >= w.at + DedupWindowHours

\* C2: two runs that each made their dedup read for the same blocked task
\* while the ledger held no escalation record for it, and met no failure,
\* both sent a blocker notification and both wrote an escalation record.
C2_ConcurrentRunsBothEscalate ==
    \A r1 \in Ids(runs) : \A r2 \in Ids(runs) : \A t \in Ids(tasks) :
        ( /\ r1 /= r2
          /\ runs[r1].pc = "done" /\ runs[r2].pc = "done"
          /\ runs[r1].errors = 0 /\ runs[r2].errors = 0
          /\ [task |-> t, found |-> 0, present |-> 0] \in runs[r1].reads
          /\ [task |-> t, found |-> 0, present |-> 0] \in runs[r2].reads )
        => /\ \A r \in {r1, r2} : \E n \in runs[r].sent : n.task = t
           /\ \A r \in {r1, r2} : \E w \in runs[r].wrote : w.task = t
           /\ Cardinality({i \in Ids(outbox) :
                  outbox[i].type = "blocker_created" /\ outbox[i].task = t}) >= 2
           /\ Cardinality({i \in Ids(events_audit) :
                  /\ events_audit[i].entity_type = "escalation"
                  /\ events_audit[i].entity_id = t
                  /\ events_audit[i].metadata.escalation_type = "blocker"}) >= 2

\* C2 witness: two overlapping runs, neither started after the other
\* returned, both read an empty ledger for the task at the same hour and
\* both notified and recorded.
C2_Witness ==
    \E r1 \in Ids(runs) : \E r2 \in Ids(runs) : \E t \in Ids(tasks) : \E h \in 0..200 :
        /\ r1 /= r2
        /\ r1 \notin runs[r2].after /\ r2 \notin runs[r1].after
        /\ [task |-> t, found |-> 0, present |-> 0] \in runs[r1].reads
        /\ [task |-> t, found |-> 0, present |-> 0] \in runs[r2].reads
        /\ [task |-> t, at |-> h] \in runs[r1].sent \cap runs[r1].wrote
        /\ [task |-> t, at |-> h] \in runs[r2].sent \cap runs[r2].wrote
        /\ runs[r1].pc = "done" /\ runs[r2].pc = "done"

(***************************************************************************)
(* Properties of the task and blocker routes (SpecTasks).                  *)
(***************************************************************************)
\* C11: in every state reached by task create, task update, blocker create
\* and blocker resolve requests, a completed task has completed_at set and
\* is not a blocker.
C11_CompletedTaskClosed ==
    \A t \in Ids(tasks) :
        tasks[t].status = "completed"
            => (tasks[t].completed_at.kind = "time" /\ ~tasks[t].is_blocker)

\* C11 witness: a task that had been reported as a blocker was completed.
C11_Witness ==
    \E t \in Ids(tasks) :
        /\ tasks[t].status = "completed"
        /\ resp.route = "task_update" /\ resp.code = 200
        /\ \E i \in Ids(events_audit) :
              /\ events_audit[i].event_type = "blocker_created"
              /\ events_audit[i].entity_id = t

(***************************************************************************)
(* The overdue rules applied to given tasks: the task list is the input,   *)
(* each action is one call and leaves what it returned in resp.            *)
(***************************************************************************)
MaxDaysOverdue == 10

OverdueTaskTypes == DOMAIN ESCALATION_RULES \cup {"requirements_review"}

\* no due date, due tomorrow, due today, and due one to MaxDaysOverdue days ago
OverdueDueDates == {NoDate} \cup {DateOn(Today - d) : d \in -1..MaxDaysOverdue}

OverdueTask(task_type, status, due_date) ==
    [onboarding_id |-> 1, task_type |-> task_type, owner_role |-> "it_contact",
     status |-> status, priority |-> "medium", due_date |-> due_date,
     completed_at |-> IF status = "completed" THEN TimeAt(0) ELSE NoTime,
     is_blocker |-> FALSE, blocker_reason |-> NULL]

OverdueTasks ==
    {OverdueTask(ty, st, due) :
        ty \in OverdueTaskTypes, st \in {"pending", "completed"}, due \in OverdueDueDates}

InitOverdue ==
    /\ now = StartNow
    /\ customers = <<[name |-> "acme"]>>
    /\ onboardings = <<[customer_id |-> 1, status |-> "in_progress", go_live_date |-> NoDate]>>
    /\ \E a \in OverdueTasks : \E b \in OverdueTasks : tasks = <<a, b>>
    /\ stakeholders = <<>>
    /\ integrations = <<>>
    /\ events_audit = <<>>
    /\ nreq = 0
    /\ resp = NoResponse
    /\ runs = <<>>
    /\ outbox = <<>>

CallShouldEscalateTask ==
    /\ \E t \in Ids(tasks) :
         resp' = [route |-> "shouldEscalateTask", task |-> t,
                  result |-> shouldEscalateTask(tasks[t])]
    /\ UNCHANGED <<dbvars, events_audit, now, nreq, runs, outbox>>

CallFindTasksNeedingEscalation ==
    /\ resp' = [route |-> "findTasksNeedingEscalation",
                result |-> findTasksNeedingEscalation(tasks, [k \in Ids(tasks) |-> k])]
    /\ UNCHANGED <<dbvars, events_audit, now, nreq, runs, outbox>>

OverdueNext ==
    \/ CallShouldEscalateTask
    \/ CallFindTasksNeedingEscalation

SpecOverdue == InitOverdue /\ [][OverdueNext]_vars

\* C12: whatever the tasks, findTasksNeedingEscalation returns no completed
\* task, and every result it returns has shouldEscalate = true.
C12_NoCompletedTaskEscalated ==
    resp.route = "findTasksNeedingEscalation"
        => \A k \in Ids(resp.result) :
              /\ tasks[resp.result[k].task].status /= "completed"
              /\ resp.result[k].escalationResult.shouldEscalate

\* C12 witness: of two tasks overdue beyond their thresholds, one completed,
\* only the other was returned.
C12_Witness ==
    /\ resp.route = "findTasksNeedingEscalation"
    /\ Len(resp.result) = 1
    /\ \E t \in Ids(tasks) :
          /\ tasks[t].status = "completed"
          /\ shouldEscalateTask(tasks[t]).shouldEscalate

\* C13: shouldEscalateTask answers shouldEscalate = true exactly when the task
\* has a due date and the whole days from the due date to today are at least
\* the overdue threshold of the rule of its task type, 3 when it has no rule.
C13_EscalateIffAtThreshold ==
    resp.route = "shouldEscalateTask"
        => LET task == tasks[resp.task]
               threshold == IF task.task_type \in DOMAIN ESCALATION_RULES
                            THEN ESCALATION_RULES[task.task_type].overdueThresholdDays
                            ELSE 3
           IN resp.result.shouldEscalate
                 <=> (task.due_date.kind = "date"
                      /\ Today - task.due_date.day >= threshold)

\* C13 witness: a task without a rule, due exactly three days ago, escalates.
C13_Witness ==
    /\ resp.route = "shouldEscalateTask"
    /\ tasks[resp.task].task_type \notin DOMAIN ESCALATION_RULES
    /\ tasks[resp.task].due_date = DateOn(Today - 3)
    /\ resp.result.shouldEscalate

\* C14: of two escalated tasks under the same rule, the one more days overdue
\* is escalated at least as deep: its tier is not lower, and the other's
\* escalateTo is a prefix of its escalateTo.
C14_TierMonotone ==
    resp.route = "findTasksNeedingEscalation"
        => \A i \in Ids(resp.result) : \A j \in Ids(resp.result) :
              LET a == resp.result[i].escalationResult
                  b == resp.result[j].escalationResult
              IN (/\ tasks[resp.result[i].task].task_type
                        = tasks[resp.result[j].task].task_type
                  /\ a.daysOverdue <= b.daysOverdue)
                 => (/\ Len(a.escalateTo) <= Len(b.escalateTo)
                     /\ SubSeq(b.escalateTo, 1, Len(a.escalateTo)) = a.escalateTo)

\* C14 witness: two escalated tasks of one type, the later-due one at the
\* first tier and the other at a deeper one.
C14_Witness ==
    /\ resp.route = "findTasksNeedingEscalation"
    /\ Len(resp.result) = 2
    /\ tasks[resp.result[1].task].task_type = tasks[resp.result[2].task].task_type
    /\ resp.result[1].escalationResult.daysOverdue
          < resp.result[2].escalationResult.daysOverdue
    /\ Len(resp.result[1].escalationResult.escalateTo)
          < Len(resp.result[2].escalationResult.escalateTo)

\* C15: an escalated task's escalateTo is the first tier + 1 roles of its
\* rule's chain, the tier being chain length - 1 capped at 2 from three times
\* the threshold, 1 capped at chain length - 1 from twice the threshold, and
\* 0 below; a task ten days overdue under a threshold of 3 is at tier 1.
C15_EscalateToIsChainPrefix ==
    (resp.route = "shouldEscalateTask" /\ resp.result.shouldEscalate)
        => LET task == tasks[resp.task]
               rule == IF task.task_type \in DOMAIN ESCALATION_RULES
                       THEN ESCALATION_RULES[task.task_type]
                       ELSE DEFAULT_ESCALATION_RULE
               chain == rule.escalationChain
               threshold == rule.overdueThresholdDays
               days == resp.result.daysOverdue
               last == Len(chain) - 1
               tier == IF days >= 3 * threshold THEN (IF last < 2 THEN last ELSE 2)
                       ELSE IF days >= 2 * threshold THEN (IF last < 1 THEN last ELSE 1)
                       ELSE 0
           IN /\ resp.result.escalateTo /= <<>>
              /\ Len(resp.result.escalateTo) = tier + 1
              /\ \A k \in 1..(tier + 1) : resp.result.escalateTo[k] = chain[k]
              /\ (days = 10 /\ threshold = 3) => Len(resp.result.escalateTo) = 2

\* C15 witness: a task ten days overdue under a threshold of 3 was escalated.
C15_Witness ==
    /\ resp.route = "shouldEscalateTask"
    /\ resp.result.shouldEscalate
    /\ resp.result.daysOverdue = 10
    /\ tasks[resp.task].task_type \in DOMAIN ESCALATION_RULES
    /\ ESCALATION_RULES[tasks[resp.task].task_type].overdueThresholdDays = 3

(***************************************************************************)
(* Task assignment (lib/demo-data).                                        *)
(***************************************************************************)
AssignmentRule(preferredRoles, fallbackRole) ==
    [preferredRoles |-> preferredRoles, fallbackRole |-> fallbackRole]

TASK_ASSIGNMENT_RULES ==
    [kickoff_meeting     |-> AssignmentRule(<<"project_manager", "owner">>, "project_manager"),
     requirements_review |-> AssignmentRule(<<"owner", "project_manager">>, "owner"),
     timeline_planning   |-> AssignmentRule(<<"project_manager">>, "project_manager"),
     security_review     |-> AssignmentRule(<<"technical_lead", "it_contact">>, "technical_lead"),
     compliance_check    |-> AssignmentRule(<<"technical_lead", "owner">>, "technical_lead"),
     go_live_preparation |-> AssignmentRule(<<"project_manager", "technical_lead">>,
                                            "project_manager")]

INTEGRATION_TASK_RULES ==
    [sis_setup    |-> AssignmentRule(<<"it_contact", "technical_lead">>, "it_contact"),
     crm_setup    |-> AssignmentRule(<<"it_contact", "technical_lead">>, "it_contact"),
     sftp_setup   |-> AssignmentRule(<<"technical_lead", "it_contact">>, "technical_lead"),
     api_setup    |-> AssignmentRule(<<"technical_lead">>, "technical_lead"),
     sis_testing  |-> AssignmentRule(<<"technical_lead", "it_contact">>, "technical_lead"),
     crm_testing  |-> AssignmentRule(<<"technical_lead", "it_contact">>, "technical_lead"),
     sftp_testing |-> AssignmentRule(<<"technical_lead">>, "technical_lead"),
     api_testing  |-> AssignmentRule(<<"technical_lead">>, "technical_lead")]

\* stakeholders.find(s => s.role === role)?.email, NULL when there is none
EmailOfFirst(shs, role) ==
    LET found == {i \in Ids(shs) : shs[i].role = role}
    IN IF found = {} THEN NULL
       ELSE shs[CHOOSE i \in found : \A j \in found : i <= j].email

Assignment(ownerRole, assignedTo) == [ownerRole |-> ownerRole, assignedTo |-> assignedTo]

\* the loop over the preferred roles from position k on, then the fallback
RECURSIVE AssignFrom(_, _, _)
AssignFrom(rule, shs, k) ==
    IF k > Len(rule.preferredRoles)
    THEN Assignment(rule.fallbackRole, EmailOfFirst(shs, rule.fallbackRole))
    ELSE IF EmailOfFirst(shs, rule.preferredRoles[k]) /= NULL
    THEN Assignment(rule.preferredRoles[k], EmailOfFirst(shs, rule.preferredRoles[k]))
    ELSE AssignFrom(rule, shs, k + 1)

assignTaskToStakeholder_Fallback(taskType, shs) ==
    IF taskType \in DOMAIN INTEGRATION_TASK_RULES
    THEN Assignment(INTEGRATION_TASK_RULES[taskType].fallbackRole,
                    EmailOfFirst(shs, INTEGRATION_TASK_RULES[taskType].fallbackRole))
    ELSE IF taskType \in DOMAIN TASK_ASSIGNMENT_RULES
    THEN Assignment(TASK_ASSIGNMENT_RULES[taskType].fallbackRole,
                    EmailOfFirst(shs, TASK_ASSIGNMENT_RULES[taskType].fallbackRole))
    ELSE Assignment("project_manager", EmailOfFirst(shs, "project_manager"))

assignTaskToStakeholder(taskType, shs) ==
    IF taskType \in DOMAIN INTEGRATION_TASK_RULES
    THEN AssignFrom(INTEGRATION_TASK_RULES[taskType], shs, 1)
    ELSE IF taskType \in DOMAIN TASK_ASSIGNMENT_RULES
    THEN AssignFrom(TASK_ASSIGNMENT_RULES[taskType], shs, 1)
    ELSE Assignment("project_manager", EmailOfFirst(shs, "project_manager"))

(***************************************************************************)
(* The stakeholder lookups applied to a given task and stakeholder list.   *)
(***************************************************************************)
MaxStakeholders == 3

LookupTaskTypes ==
    {"sis_setup", "api_setup", "security_review", "kickoff_meeting",
     "requirements_review", "go_live_preparation", "stakeholder_approval"}

LookupOwnerRoles == StakeholderRoles \cup {"customer_admin"}

TaskPriorities == {"low", "medium", "high", "critical"}

\* the stakeholder at position i of the list for an onboarding
LookupStakeholder(role, i) ==
    [role |-> role, onboarding_id |-> 1,
     email |-> <<"s1@acme.io", "s2@acme.io", "s3@acme.io", "s4@acme.io", "s5@acme.io">>[i]]

LookupStakeholders ==
    UNION {{[i \in 1..n |-> LookupStakeholder(roles[i], i)] :
               roles \in [1..n -> StakeholderRoles]} : n \in 0..MaxStakeholders}

InitLookup ==
    /\ now = StartNow
    /\ customers = <<[name |-> "acme"]>>
    /\ onboardings = <<[customer_id |-> 1, status |-> "blocked", go_live_date |-> NoDate]>>
    /\ \E ty \in LookupTaskTypes : \E role \in LookupOwnerRoles : \E pr \in TaskPriorities :
          tasks = <<[onboarding_id |-> 1, task_type |-> ty, owner_role |-> role,
                     status |-> "blocked", priority |-> pr, due_date |-> NoDate,
                     completed_at |-> NoTime, is_blocker |-> TRUE,
                     blocker_reason |-> "waiting"]>>
    /\ stakeholders \in LookupStakeholders
    /\ integrations = <<>>
    /\ events_audit = <<>>
    /\ nreq = 0
    /\ resp = NoResponse
    /\ runs = <<>>
    /\ outbox = <<>>

CallGetBlockerEscalationRecipients ==
    /\ \E t \in Ids(tasks) :
         resp' = [route |-> "getBlockerEscalationRecipients", task |-> t,
                  result |-> getBlockerEscalationRecipients(tasks[t], stakeholders)]
    /\ UNCHANGED <<dbvars, events_audit, now, nreq, runs, outbox>>

CallAssignTaskToStakeholder ==
    /\ \E t \in Ids(tasks) :
         resp' = [route |-> "assignTaskToStakeholder", task |-> t,
                  result |-> assignTaskToStakeholder(tasks[t].task_type, stakeholders)]
    /\ UNCHANGED <<dbvars, events_audit, now, nreq, runs, outbox>>

LookupNext ==
    \/ CallGetBlockerEscalationRecipients
    \/ CallAssignTaskToStakeholder

SpecLookup == InitLookup /\ [][LookupNext]_vars

\* C16: getBlockerEscalationRecipients returns, for each successor role of the
\* task's owner_role in map order, the contact of the first stakeholder with
\* that role and nothing for a role nobody holds; a sis_setup task of the
\* it_contact with a technical lead and a project manager present yields both
\* contacts at urgency critical.
C16_BlockerRecipientsBySuccessorRole ==
    resp.route = "getBlockerEscalationRecipients"
        => LET task == tasks[resp.task]
               successors ==
                   CASE task.owner_role = "it_contact" -> <<"technical_lead", "project_manager">>
                     [] task.owner_role = "technical_lead" -> <<"project_manager", "owner">>
                     [] task.owner_role = "project_manager" -> <<"owner">>
                     [] task.owner_role = "owner" -> <<"project_manager">>
                     [] OTHER -> <<"project_manager">>
               Holders(role) == {i \in Ids(stakeholders) : stakeholders[i].role = role}
               Held == {k \in Ids(successors) : Holders(successors[k]) /= {}}
               Contact(role) ==
                   stakeholders[CHOOSE i \in Holders(role) :
                                   \A j \in Holders(role) : i <= j].email
               to == resp.result.escalateTo
           IN /\ Len(to) = Cardinality(Held)
              /\ \A k \in Held :
                    to[Cardinality({h \in Held : h <= k})] = Contact(successors[k])
              /\ (/\ task.task_type = "sis_setup" /\ task.owner_role = "it_contact"
                  /\ Holders("technical_lead") /= {} /\ Holders("project_manager") /= {})
                 => (Len(to) = 2 /\ resp.result.urgencyLevel = "critical")

\* C16 witness: a sis_setup task of the it_contact, of low priority, with two
\* project managers listed before the technical lead, got two recipients.
C16_Witness ==
    /\ resp.route = "getBlockerEscalationRecipients"
    /\ tasks[resp.task].task_type = "sis_setup"
    /\ tasks[resp.task].owner_role = "it_contact"
    /\ tasks[resp.task].priority = "low"
    /\ Len(stakeholders) = 3
    /\ stakeholders[1].role = "project_manager"
    /\ stakeholders[2].role = "project_manager"
    /\ stakeholders[3].role = "technical_lead"
    /\ Len(resp.result.escalateTo) = 2

\* C17: assignTaskToStakeholder gives the first preferred role of the task
\* type that a stakeholder holds, with the contact of the first stakeholder
\* holding it; the fallback role, with a contact of that role or none, when no
\* preferred role is held; project_manager for a task type without a rule; and
\* a contact it gives always belongs to a stakeholder of the owner role.
C17_AssignmentFollowsPreference ==
    resp.route = "assignTaskToStakeholder"
        => LET taskType == tasks[resp.task].task_type
               rules == INTEGRATION_TASK_RULES @@ TASK_ASSIGNMENT_RULES
               Holders(role) == {i \in Ids(stakeholders) : stakeholders[i].role = role}
               res == resp.result
           IN /\ taskType \in DOMAIN rules =>
                   LET preferred == rules[taskType].preferredRoles
                       held == {k \in Ids(preferred) : Holders(preferred[k]) /= {}}
                   IN IF held /= {}
                      THEN LET first == CHOOSE k \in held : \A h \in held : k <= h
                               who == CHOOSE i \in Holders(preferred[first]) :
                                         \A j \in Holders(preferred[first]) : i <= j
                           IN /\ res.ownerRole = preferred[first]
                              /\ res.assignedTo = stakeholders[who].email
                      ELSE /\ res.ownerRole = rules[taskType].fallbackRole
                           /\ \/ res.assignedTo = NULL
                              \/ \E i \in Holders(rules[taskType].fallbackRole) :
                                    res.assignedTo = stakeholders[i].email
              /\ taskType \notin DOMAIN rules => res.ownerRole = "project_manager"
              /\ res.assignedTo /= NULL =>
                   \E i \in Holders(res.ownerRole) : stakeholders[i].email = res.assignedTo

\* C17 witness: a security review with an it_contact listed before two
\* technical leads went to the first technical lead.
C17_Witness ==
    /\ resp.route = "assignTaskToStakeholder"
    /\ tasks[resp.task].task_type = "security_review"
    /\ Len(stakeholders) = 3
    /\ stakeholders[1].role = "it_contact"
    /\ stakeholders[2].role = "technical_lead"
    /\ stakeholders[3].role = "technical_lead"
    /\ resp.result = [ownerRole |-> "technical_lead", assignedTo |-> stakeholders[2].email]

(***************************************************************************)
(* Integration validation (lib/integration-lifecycle).  A configuration is *)
(* modelled by which of its credential keys hold a truthy value.           *)
(***************************************************************************)
ConfigurationKeys ==
    {"api_key", "client_id", "client_secret", "username", "password",
     "private_key", "bearer_token"}

IntegrationConfigurations == [ConfigurationKeys -> BOOLEAN]

TestResult(success, test_type, message) ==
    [success |-> success, test_type |-> test_type, message |-> message]

testSISIntegration(config) ==
    <<TestResult(TRUE, "connectivity", "SIS endpoint connectivity verified"),
      TestResult(config.api_key, "authentication",
                 IF config.api_key THEN "SIS authentication successful"
                 ELSE "SIS API key missing or invalid"),
      TestResult(TRUE, "data_flow", "SIS data flow test completed successfully")>>

testCRMIntegration(config) ==
    <<TestResult(TRUE, "connectivity", "CRM endpoint connectivity verified"),
      TestResult(config.client_id /\ config.client_secret, "authentication",
                 IF config.client_id /\ config.client_secret
                 THEN "CRM OAuth authentication successful"
                 ELSE "CRM OAuth credentials missing or invalid"),
      TestResult(TRUE, "data_flow", "CRM data synchronization test completed")>>

testSFTPIntegration(config) ==
    <<TestResult(TRUE, "connectivity", "SFTP server connectivity verified"),
      TestResult(config.username /\ (config.password \/ config.private_key),
                 "authentication",
                 IF config.username /\ (config.password \/ config.private_key)
                 THEN "SFTP authentication successful"
                 ELSE "SFTP credentials missing (username and password/key required)"),
      TestResult(TRUE, "data_flow", "SFTP file transfer test completed")>>

testAPIIntegration(config) ==
    <<TestResult(TRUE, "connectivity", "API endpoint connectivity verified"),
      TestResult(config.api_key \/ config.bearer_token, "authentication",
                 IF config.api_key \/ config.bearer_token
                 THEN "API authentication successful"
                 ELSE "API authentication credentials missing"),
      TestResult(TRUE, "configuration", "API configuration validation completed")>>

\* the test results that satisfy a condition, in order
RECURSIVE TestsWhere(_, _)
TestsWhere(testResults, success) ==
    IF testResults = <<>> THEN <<>>
    ELSE (IF Head(testResults).success = success THEN <<Head(testResults)>> ELSE <<>>)
         \o TestsWhere(Tail(testResults), success)

Round_Down(successfulTests, totalTests) == (successfulTests * 100) \div totalTests

\* Math.round((successfulTests / totalTests) * 100)
Round(successfulTests, totalTests) ==
    (2 * successfulTests * 100 + totalTests) \div (2 * totalTests)

\* a status rule whose warning band starts at 60 percent
OverallStatus_WarningFrom60(completionPercentage) ==
    IF completionPercentage = 100 THEN "passed"
    ELSE IF completionPercentage >= 60 THEN "warning"
    ELSE "failed"

OverallStatus(completionPercentage) ==
    IF completionPercentage = 100 THEN "passed"
    ELSE IF completionPercentage >= 70 THEN "warning"
    ELSE "failed"

\* a line of next_steps: its text, the failed test it is about if any, and
\* the condition under which the code pushes it
Step(text, test, when) == [text |-> text, test |-> test, when |-> when]

NoTest == TestResult(FALSE, "none", "")

NextSteps(failedTests, overallStatus) ==
    (IF Len(failedTests) > 0
     THEN <<Step("Address N failed test(s)", NoTest, "failed_tests")>>
          \o [k \in 1..Len(failedTests) |->
                Step("- Fix test_type: message", failedTests[k], "failed_tests")]
     ELSE <<>>)
    \o (IF overallStatus = "passed"
        THEN <<Step("Integration ready for production use", NoTest, "passed"),
               Step("Schedule go-live validation", NoTest, "passed")>>
        ELSE IF overallStatus = "warning"
        THEN <<Step("Review warnings and optimize configuration", NoTest, "warning"),
               Step("Consider additional testing before go-live", NoTest, "warning")>>
        ELSE <<>>)

runIntegrationTests(integration) ==
    LET config == integration.configuration
        testResults ==
            CASE integration.type = "SIS"  -> testSISIntegration(config)
              [] integration.type = "CRM"  -> testCRMIntegration(config)
              [] integration.type = "SFTP" -> testSFTPIntegration(config)
              [] integration.type = "API"  -> testAPIIntegration(config)
              [] OTHER -> <<TestResult(TRUE, "configuration", "Generic integration test")>>
        successfulTests == Len(TestsWhere(testResults, TRUE))
        totalTests == Len(testResults)
        completionPercentage ==
            IF totalTests > 0 THEN Round(successfulTests, totalTests) ELSE 0
        overallStatus == OverallStatus(completionPercentage)
    IN [overall_status        |-> overallStatus,
        test_results          |-> testResults,
        completion_percentage |-> completionPercentage,
        next_steps            |-> NextSteps(TestsWhere(testResults, FALSE), overallStatus)]

determineIntegrationStatus(validationResult) ==
    IF validationResult.overall_status = "passed" THEN "active"
    ELSE IF validationResult.overall_status = "warning" THEN "testing"
    ELSE "failed"

(***************************************************************************)
(* Validation applied to a given integration: an integration of any type   *)
(* with any configuration is tested, and the status that follows from the  *)
(* result is worked out.                                                   *)
(***************************************************************************)
InitValidation ==
    /\ now = StartNow
    /\ customers = <<[name |-> "acme"]>>
    /\ onboardings = <<[customer_id |-> 1, status |-> "in_progress", go_live_date |-> NoDate]>>
    /\ tasks = <<>>
    /\ stakeholders = <<>>
    /\ \E type \in IntegrationTypes : \E config \in IntegrationConfigurations :
          integrations = <<[onboarding_id |-> 1, type |-> type, status |-> "configured",
                            configuration |-> config]>>
    /\ events_audit = <<>>
    /\ nreq = 0
    /\ resp = NoResponse
    /\ runs = <<>>
    /\ outbox = <<>>

CallRunIntegrationTests ==
    /\ \E i \in Ids(integrations) :
         resp' = [route |-> "runIntegrationTests", integration |-> i,
                  result |-> runIntegrationTests(integrations[i])]
    /\ UNCHANGED <<dbvars, events_audit, now, nreq, runs, outbox>>

CallDetermineIntegrationStatus ==
    /\ resp.route = "runIntegrationTests"
    /\ resp' = [route |-> "determineIntegrationStatus", integration |-> resp.integration,
                validation |-> resp.result,
                result |-> determineIntegrationStatus(resp.result)]
    /\ UNCHANGED <<dbvars, events_audit, now, nreq, runs, outbox>>

ValidationNext ==
    \/ CallRunIntegrationTests
    \/ CallDetermineIntegrationStatus

SpecValidation == InitValidation /\ [][ValidationNext]_vars

\* C18: a validation result's completion_percentage is 100 x passed / total
\* rounded to the nearest whole number, and its overall_status is passed
\* exactly at 100, warning exactly from 70 up to 99, failed exactly below 70.
C18_PercentageAndStatus ==
    resp.route = "runIntegrationTests"
        => LET r == resp.result
               total == Len(r.test_results)
               passed == Cardinality({k \in Ids(r.test_results) : r.test_results[k].success})
               pct == r.completion_percentage
           IN /\ 2 * total * pct <= 200 * passed + total
              /\ 200 * passed + total < 2 * total * (pct + 1)
              /\ r.overall_status = "passed" <=> pct = 100
              /\ r.overall_status = "warning" <=> (70 <= pct /\ pct < 100)
              /\ r.overall_status = "failed" <=> pct < 70

\* C18 witness: two of three tests passed, which is 67 percent and failed.
C18_Witness ==
    /\ resp.route = "runIntegrationTests"
    /\ Len(resp.result.test_results) = 3
    /\ Len(TestsWhere(resp.result.test_results, TRUE)) = 2
    /\ resp.result.completion_percentage = 67
    /\ resp.result.overall_status = "failed"

\* C19: no step takes a stored integration from active to testing unless a
\* validation run of that integration (runIntegrationTests followed by
\* determineIntegrationStatus), whatever its configuration, gives testing.
C19_NoRegressionWithoutValidation ==
    [][\A i \in Ids(integrations) :
          (integrations[i].status = "active" /\ integrations'[i].status = "testing")
              => \E config \in IntegrationConfigurations :
                    determineIntegrationStatus(
                        runIntegrationTests([type |-> integrations'[i].type,
                                             configuration |-> config])) = "testing"]_vars

\* C20: a validation result's next_steps has one line for each failed test,
\* and a recommendation chosen by its overall_status, be it passed, warning
\* or failed.
C20_NextStepsByStatus ==
    resp.route = "runIntegrationTests"
        => LET r == resp.result
               failed == {k \in Ids(r.test_results) : ~r.test_results[k].success}
               about == {n \in Ids(r.next_steps) : r.next_steps[n].test /= NoTest}
           IN /\ Cardinality(about) = Cardinality(failed)
              /\ \A k \in failed : \E n \in about : r.next_steps[n].test = r.test_results[k]
              /\ \E n \in Ids(r.next_steps) : r.next_steps[n].when = r.overall_status

(***************************************************************************)
(* Integration status report (lib/integration-lifecycle), applied to a     *)
(* given integration list.                                                 *)
(***************************************************************************)
MaxIntegrations == 201

calculateIntegrationProgress(list) ==
    LET total == Len(list)
        completed == Cardinality({i \in Ids(list) : list[i].status = "active"})
    IN [total_integrations     |-> total,
        completed_integrations |-> completed,
        completion_percentage  |-> IF total > 0 THEN Round(completed, total) ELSE 0,
        status_breakdown       |->
            [st \in IntegrationStatuses |->
                Cardinality({i \in Ids(list) : list[i].status = st})]]

generateStatusReport(list) ==
    LET progress == calculateIntegrationProgress(list)
        Recommend(cond, text, count) ==
            IF cond THEN <<[text |-> text, count |-> count]>> ELSE <<>>
    IN [summary |-> [completion_percentage  |-> progress.completion_percentage,
                     completed_integrations |-> progress.completed_integrations,
                     total_integrations     |-> progress.total_integrations],
        details |-> [i \in Ids(list) |->
                       [type |-> list[i].type, status |-> list[i].status,
                        issues |-> IF list[i].status = "failed"
                                   THEN <<"Integration tests failed">> ELSE <<>>]],
        recommendations |->
            Recommend(progress.status_breakdown.not_configured > 0,
                      "Configure N pending integration(s)",
                      progress.status_breakdown.not_configured)
            \o Recommend(progress.status_breakdown.failed > 0,
                         "Fix N failed integration(s)", progress.status_breakdown.failed)
            \o Recommend(progress.status_breakdown.testing > 0,
                         "Complete testing for N integration(s)",
                         progress.status_breakdown.testing)
            \o Recommend(progress.completion_percentage = 100,
                         "All integrations ready - proceed with go-live", 0)]

\* the integration lists reported on: one to MaxIntegrations integrations,
\* all active but for at most two at the end, of any other status
ReportLists ==
    UNION {{[i \in 1..n |->
               [onboarding_id |-> 1, type |-> "API",
                status |-> IF i <= n - Len(rest) THEN "active"
                           ELSE rest[i - (n - Len(rest))]]] :
              rest \in UNION {[1..m -> IntegrationStatuses \ {"active"}] :
                                 m \in 0..(IF n < 2 THEN n ELSE 2)}} :
           n \in 1..MaxIntegrations}

InitReport ==
    /\ now = StartNow
    /\ customers = <<[name |-> "acme"]>>
    /\ onboardings = <<[customer_id |-> 1, status |-> "in_progress", go_live_date |-> NoDate]>>
    /\ tasks = <<>>
    /\ stakeholders = <<>>
    /\ integrations \in ReportLists
    /\ events_audit = <<>>
    /\ nreq = 0
    /\ resp = NoResponse
    /\ runs = <<>>
    /\ outbox = <<>>

CallGenerateStatusReport ==
    /\ resp' = [route |-> "generateStatusReport",
                result |-> generateStatusReport(integrations)]
    /\ UNCHANGED <<dbvars, events_audit, now, nreq, runs, outbox>>

SpecReport == InitReport /\ [][CallGenerateStatusReport]_vars

\* C21: the report on a non-empty integration list recommends proceeding
\* with go-live exactly when every integration of the list is active.
C21_GoLiveIffAllActive ==
    resp.route = "generateStatusReport"
        => ((\E k \in Ids(resp.result.recommendations) :
                resp.result.recommendations[k].text
                    = "All integrations ready - proceed with go-live")
            <=> \A i \in Ids(integrations) : integrations[i].status = "active")

\* C22: an audit query whose limit is outside 1..1000 or whose offset is
\* negative is rejected: it is not answered with the records or the summary.
C22_BadPaginationRejected ==
    (resp.route = "audit_query" /\ resp.invalid) => resp.code /= 200

\* C23: a notification that could not be delivered does not end the run: the
\* step that meets the failure adds one to the run's errors, triggers
\* nothing, and leaves the run at its next task.
C23_NotifyFailureIsReported ==
    [][\A r \in Ids(runs) :
          (/\ runs'[r] /= runs[r]
           /\ \/ runs[r].pc = "notify" /\ runs'[r].pc /= "audit"
              \/ runs[r].pc = "overdue" /\ outbox' = outbox)
              => /\ runs'[r].errors = runs[r].errors + 1
                 /\ runs'[r].triggered = runs[r].triggered
                 /\ events_audit' = events_audit
                 /\ runs'[r].pc = IF runs'[r].overdue /= <<>> THEN "overdue"
                                  ELSE IF runs'[r].blocked /= <<>> THEN "dedup"
                                  ELSE "done"
                 /\ IF runs[r].pc = "overdue"
                    THEN /\ runs'[r].overdue = Tail(runs[r].overdue)
                         /\ runs'[r].blocked = runs[r].blocked
                    ELSE /\ runs'[r].overdue = runs[r].overdue
                         /\ runs'[r].blocked = Tail(runs[r].blocked)]_vars

\* C23 witness: a finished run whose overdue notification had a recipient
\* but was not delivered, and which then escalated the blocked task.
C23_Witness ==
    \E r \in Ids(runs) :
        /\ runs[r].pc = "done"
        /\ runs[r].errors = 1
        /\ runs[r].triggered = 1
        /\ \E t \in Ids(tasks) :
              /\ shouldEscalateTask(tasks[t]).shouldEscalate
              /\ RecipientsFor(shouldEscalateTask(tasks[t]).escalateTo, stakeholders) /= <<>>
        /\ \A k \in Ids(outbox) : outbox[k].run = r => outbox[k].type = "blocker_created"
        /\ \E k \in Ids(outbox) : outbox[k].run = r

(***************************************************************************)
(* POST blockers and PUT blockers served concurrently.  Each handler is a  *)
(* sequence of awaited store calls; another request's calls can come       *)
(* between any two of them.  runs holds the requests received: the task    *)
(* and onboarding named in the body, the store call the handler is at, and *)
(* what its read of the remaining blockers returned.  Requests here pass   *)
(* validation and every store call succeeds.                               *)
(***************************************************************************)
MaxBlockerRequests == 3

BlockerArrive ==
    /\ Len(runs) < MaxBlockerRequests
    /\ \E kind \in {"create", "resolve"} : \E t \in Ids(tasks) :
          runs' = Append(runs, [kind |-> kind, task |-> t,
                                onboarding |-> tasks[t].onboarding_id,
                                pc |-> "onboarding_tasks", remaining |-> 0])
    /\ UNCHANGED <<dbvars, events_audit, now, nreq, resp, outbox>>

\* the next store call of a POST blockers handler
BlockerCreateStep(r) ==
    LET run == runs[r]
        At(pc) == runs' = [runs EXCEPT ![r].pc = pc]
    IN /\ run.kind = "create"
       /\ \/ /\ run.pc = "onboarding_tasks"
             /\ tasks' = UpdateWhereId(tasks, run.task, BlockTask("waiting"))
             /\ At("onboardings")
             /\ UNCHANGED <<onboardings, events_audit>>
          \/ /\ run.pc = "onboardings"
             /\ onboardings' = UpdateWhereId(onboardings, run.onboarding, SetStatus("blocked"))
             /\ At("events_audit")
             /\ UNCHANGED <<tasks, events_audit>>
          \/ /\ run.pc = "events_audit"
             /\ events_audit' = createAuditRecord(events_audit,
                    [entity_type |-> "blocker", entity_id |-> run.task,
                     event_type |-> "blocker_created",
                     metadata |-> ApiMeta([onboarding_id |-> run.onboarding])])
             /\ At("done")
             /\ UNCHANGED <<tasks, onboardings>>
       /\ UNCHANGED <<customers, stakeholders, integrations, now, nreq, resp, outbox>>

\* the next store call of a PUT blockers handler with action resolve
BlockerResolveStep(r) ==
    LET run == runs[r]
        oid == tasks[run.task].onboarding_id
        At(pc) == runs' = [runs EXCEPT ![r].pc = pc]
    IN /\ run.kind = "resolve"
       /\ \/ /\ run.pc = "onboarding_tasks"
             /\ tasks' = SetRow(tasks, run.task, ResolveTask(tasks[run.task]))
             /\ At("select_blockers")
             /\ UNCHANGED <<onboardings, events_audit>>
          \/ /\ run.pc = "select_blockers"
             /\ LET remaining == Cardinality(RemainingBlockers(tasks, oid))
                IN runs' = [runs EXCEPT ![r].remaining = remaining,
                                        ![r].pc = IF remaining = 0 THEN "onboardings"
                                                  ELSE "events_audit"]
             /\ UNCHANGED <<tasks, onboardings, events_audit>>
          \/ /\ run.pc = "onboardings"
             /\ onboardings' = UpdateWhereId(onboardings, oid, SetStatus("in_progress"))
             /\ At("events_audit")
             /\ UNCHANGED <<tasks, events_audit>>
          \/ /\ run.pc = "events_audit"
             /\ events_audit' = createAuditRecord(events_audit,
                    [entity_type |-> "blocker", entity_id |-> run.task,
                     event_type |-> "blocker_resolved",
                     metadata |-> ApiMeta([onboarding_id |-> oid])])
             /\ At("done")
             /\ UNCHANGED <<tasks, onboardings>>
       /\ UNCHANGED <<customers, stakeholders, integrations, now, nreq, resp, outbox>>

BlockersNext ==
    \/ BlockerArrive
    \/ \E r \in Ids(runs) : BlockerCreateStep(r)
    \/ \E r \in Ids(runs) : BlockerResolveStep(r)

SpecBlockers == InitTasks /\ [][BlockersNext]_vars

\* C24: once every blocker request received has completed, an onboarding is
\* blocked exactly when one of its tasks is a blocker.
C24_BlockedIffSomeBlocker ==
    (\A r \in Ids(runs) : runs[r].pc = "done")
        => \A o \in Ids(onboardings) :
              onboardings[o].status = "blocked" <=> RemainingBlockers(tasks, o) /= {}

\* C25: in every state the task and blocker routes reach, a task has status
\* blocked exactly when it is flagged is_blocker.
C25_BlockedIffIsBlocker ==
    \A t \in Ids(tasks) : tasks[t].status = "blocked" <=> tasks[t].is_blocker

\* C26: a GET escalations for an onboarding returns every escalation record
\* that the runs have written for that onboarding.
C26_WrittenEscalationsAreListed ==
    (resp.route = "escalations_get" /\ resp.code = 200)
        => \A i \in Ids(events_audit) :
              (/\ events_audit[i].entity_type = "escalation"
               /\ resp.onboarding_id \in {0, events_audit[i].metadata.onboarding_id})
                  => i \in resp.escalations

\* C27: the urgency of a blocker notification sent by a run is the
\* urgencyLevel that getBlockerEscalationRecipients computes for the task.
C27_BlockerPayloadUrgency ==
    \A k \in Ids(outbox) :
        outbox[k].type = "blocker_created"
            => outbox[k].urgency =
                 getBlockerEscalationRecipients(tasks[outbox[k].task], stakeholders).urgencyLevel

\* C28: a blocker-resolve request leaves the status and completed_at of
\* every task that is not a blocker as they were, and when no task is a
\* blocker (so the task it names is none) it leaves the onboardings as they
\* were.
C28_ResolveOfNonBlockerIsNoOp ==
    [][(resp'.route = "blocker_resolve" /\ nreq' = nreq + 1)
          => /\ \A t \in Ids(tasks) :
                  ~tasks[t].is_blocker
                      => /\ tasks'[t].status = tasks[t].status
                         /\ tasks'[t].completed_at = tasks[t].completed_at
             /\ (\A t \in Ids(tasks) : ~tasks[t].is_blocker)
                    => onboardings' = onboardings]_vars

\* C29: whatever the integration's type and configuration, runIntegrationTests
\* gives overall_status passed or failed, never warning, and
\* determineIntegrationStatus of that result is never testing.
C29_NeverWarningNeverTesting ==
    /\ resp.route = "runIntegrationTests"
          => resp.result.overall_status \in {"passed", "failed"}
    /\ resp.route = "determineIntegrationStatus"
          => /\ resp.validation = runIntegrationTests(integrations[resp.integration])
             /\ resp.result \in {"active", "failed"}

\* C29 witness: an API integration with neither api_key nor bearer_token was
\* validated: two of three tests passed, the result is failed and so is the
\* status.
C29_Witness ==
    /\ resp.route = "determineIntegrationStatus"
    /\ integrations[resp.integration].type = "API"
    /\ ~integrations[resp.integration].configuration.api_key
    /\ ~integrations[resp.integration].configuration.bearer_token
    /\ resp.validation.completion_percentage = 67
    /\ resp.validation.overall_status = "failed"
    /\ resp.result = "failed"

\* C30: no notification is sent with an empty list of recipients.
C30_NoEmptyRecipients ==
    \A k \in Ids(outbox) : outbox[k].recipients /= <<>>

====
